---- MODULE Spec2Model ----
(***************************************************************************)
(* A model of the retained-mode UI core of rg3d-ui: the widget record      *)
(* (widget.rs), the stacking container (stack_panel.rs), the text box      *)
(* (text_box.rs) and the event record (event.rs).  The layout driver       *)
(* (Control::measure / Control::arrange), the default overrides of the     *)
(* base widget, the arena and the event router live in files that are not  *)
(* part of the sources at hand; they are modelled from the design          *)
(* document and marked so in the model map.                                *)
(*                                                                         *)
(* Numbers.  f32 sizes are modelled by naturals; std::f32::INFINITY is the *)
(* value Inf, which is larger than every finite size of the model and      *)
(* absorbs addition; std::f32::NAN (the "auto" sentinel) is the value NaN, *)
(* which only ever appears in the explicit width / height fields and is    *)
(* only ever tested with is_nan.                                           *)
(***************************************************************************)
EXTENDS Integers, Sequences, FiniteSets, TLC

\* ------------------------------------------------------------------ bounds
\* Largest finite size / coordinate the inputs are drawn from.
MaxDim == 2
\* Number of operations (passes, invalidations, setter calls) in one behaviour.
MaxOps == 3
\* Number of Widget setter calls among them.
MaxSets == 1

MaxText == 3

\* --------------------------------------------------------------- constants
NONE == 0
NaN == -1
Inf == 99

Nodes == 1 .. 4
Handles == Nodes \cup {NONE}

VARIABLES
    nodes,        \* the arena: handle -> Widget (the state every node embeds)
    orientation,  \* StackPanel::orientation of the stack panels
    boxes,        \* the TextBox state of the text boxes
    captured,     \* UserInterface: the mouse-capture owner
    capture_replaces, \* whether capture_mouse takes the capture from an owner
    picked_node,  \* UserInterface: the node under the cursor at the last move
    last,         \* the last layout operation and what it did (observer)
    disp,         \* the last event and whom it went to (observer)
    route,        \* what the router was given for the last event (observer)
    frame,        \* UserInterface: the frame, its phase and the queued events
    pool,         \* the arena as a pool of generation-checked slots
    call,         \* the last call on a builder, a widget or a text box, and
                  \* what it was given and gave (observer)
    ops,          \* operations made so far
    sets          \* Widget setter calls made so far

vars ==
    <<nodes, orientation, boxes, captured, capture_replaces, picked_node,
      last, disp, route, frame, pool, call, ops, sets>>

\* ------------------------------------------------------------- f32 helpers
is_nan(v) == v = NaN

Add(a, b) == IF a = Inf \/ b = Inf THEN Inf ELSE a + b

\* a - b kept inside [0, +inf): every computed size is clamped to >= 0.
Sub(a, b) == IF a = Inf THEN Inf ELSE IF a > b THEN a - b ELSE 0

maxf(a, b) == IF a > b THEN a ELSE b

minf(a, b) == IF a < b THEN a ELSE b

Vec2(x, y) == [x |-> x, y |-> y]

ZERO == Vec2(0, 0)

Rect(x, y, w, h) == [x |-> x, y |-> y, w |-> w, h |-> h]

Thickness(l, t, r, b) == [left |-> l, top |-> t, right |-> r, bottom |-> b]

ThicknessZero == Thickness(0, 0, 0, 0)

\* Values that stand for "nothing recorded" in the observer variables.
NoVec == Vec2(NaN, NaN)

NoRect == Rect(NaN, NaN, NaN, NaN)

\* ------------------------------------------------------------------- trees
\* The node kinds of the arena: 1 and 4 are stack panels, 2 is a text box,
\* 3 is a plain widget.
KindOf == <<"StackPanel", "TextBox", "Widget", "StackPanel">>

PanelNodes == {n \in Nodes : KindOf[n] = "StackPanel"}

BoxNodes == {n \in Nodes : KindOf[n] = "TextBox"}

\* The children of p in handle order, as the builder's with_child calls give them.
RECURSIVE ChildrenFrom(_, _, _)
ChildrenFrom(par, p, n) ==
    IF n > Len(par) THEN <<>>
    ELSE (IF par[n] = p THEN <<n>> ELSE <<>>) \o ChildrenFrom(par, p, n + 1)

\* ----------------------------------------------------------- WidgetBuilder
\* Option<T>: <<>> is None, <<v>> is Some(v).
None == <<>>

Some(v) == <<v>>

unwrap_or(o, d) == IF o = <<>> THEN d ELSE o[1]

HorizontalAlignments == {"Stretch", "Left", "Center", "Right"}

VerticalAlignments == {"Stretch", "Top", "Center", "Bottom"}

Visibilities == {"Visible", "Collapsed", "Hidden"}

Orientations == {"Vertical", "Horizontal"}

WidgetBuilderNew ==
    [ width |-> None, height |-> None,
      vertical_alignment |-> None, horizontal_alignment |-> None,
      max_size |-> None, min_size |-> None,
      background |-> None, foreground |-> None,
      row |-> None, column |-> None, margin |-> None,
      desired_position |-> None,
      children |-> <<>>,
      is_hit_test_visible |-> TRUE,
      visibility |-> "Visible" ]

with_child(b, handle) ==
    IF handle # NONE THEN [b EXCEPT !.children = Append(@, handle)] ELSE b

with_children(b, hs) == [b EXCEPT !.children = @ \o hs]

\* with_hit_test_visibility writing the visibility as well.
with_hit_test_visibility_AlsoHides(b, state) ==
    [b EXCEPT !.is_hit_test_visible = state,
              !.visibility = IF state THEN "Visible" ELSE "Hidden"]

with_hit_test_visibility(b, state) == [b EXCEPT !.is_hit_test_visible = state]

\* The other options of the builder, by the name of the method.
with_option(b, option, value) ==
    CASE option = "with_width" -> [b EXCEPT !.width = Some(value)]
      [] option = "with_height" -> [b EXCEPT !.height = Some(value)]
      [] option = "with_vertical_alignment" ->
            [b EXCEPT !.vertical_alignment = Some(value)]
      [] option = "with_horizontal_alignment" ->
            [b EXCEPT !.horizontal_alignment = Some(value)]
      [] option = "with_max_size" -> [b EXCEPT !.max_size = Some(value)]
      [] option = "with_min_size" -> [b EXCEPT !.min_size = Some(value)]
      [] option = "with_background" -> [b EXCEPT !.background = Some(value)]
      [] option = "with_foreground" -> [b EXCEPT !.foreground = Some(value)]
      [] option = "on_row" -> [b EXCEPT !.row = Some(value)]
      [] option = "on_column" -> [b EXCEPT !.column = Some(value)]
      [] option = "with_margin" -> [b EXCEPT !.margin = Some(value)]
      [] option = "with_desired_position" ->
            [b EXCEPT !.desired_position = Some(value)]
      [] option = "with_child" -> with_child(b, value)
      [] option = "with_children" -> with_children(b, value)
      [] option = "with_hit_test_visibility" ->
            with_hit_test_visibility(b, value)
      [] option = "with_visibility" -> [b EXCEPT !.visibility = value]

\* WidgetBuilder::build.  prev_measure and prev_arrange are the "previous
\* constraint / rectangle" the layout cache is keyed on.
build(b) ==
    [ desired_local_position |-> unwrap_or(b.desired_position, ZERO),
      width |-> unwrap_or(b.width, NaN),
      height |-> unwrap_or(b.height, NaN),
      screen_position |-> ZERO,
      desired_size |-> ZERO,
      actual_local_position |-> ZERO,
      actual_size |-> ZERO,
      min_size |-> unwrap_or(b.min_size, ZERO),
      max_size |-> unwrap_or(b.max_size, Vec2(Inf, Inf)),
      background |-> unwrap_or(b.background, "WHITE"),
      foreground |-> unwrap_or(b.foreground, "WHITE"),
      row |-> unwrap_or(b.row, 0),
      column |-> unwrap_or(b.column, 0),
      vertical_alignment |-> unwrap_or(b.vertical_alignment, "Stretch"),
      horizontal_alignment |-> unwrap_or(b.horizontal_alignment, "Stretch"),
      margin |-> unwrap_or(b.margin, ThicknessZero),
      visibility |-> b.visibility,
      global_visibility |-> TRUE,
      children |-> b.children,
      parent |-> NONE,
      command_indices |-> <<>>,
      is_mouse_over |-> FALSE,
      measure_valid |-> FALSE,
      arrange_valid |-> FALSE,
      events |-> <<>>,
      is_hit_test_visible |-> b.is_hit_test_visible,
      prev_measure |-> NoVec,
      prev_arrange |-> NoRect ]

\* ------------------------------------------------------------ layout state
\* What a layout pass threads through its recursion: the arena, and what the
\* pass did, for the observer: the nodes whose override ran, the argument each
\* override was called with and the value it returned, and the constraint
\* (measure) or rectangle (arrange) each child was handed by its parent.
NewPass(ns) ==
    [ nodes |-> ns,
      ran |-> {},
      args |-> [n \in Nodes |-> NoVec],
      rets |-> [n \in Nodes |-> NoVec],
      cons |-> [n \in Nodes |-> NoVec],
      rects |-> [n \in Nodes |-> NoRect] ]

\* ------------------------------------------------- StackPanel: measure
\* ChildConstraint without the clamp to max_size.
ChildConstraint_NoMaxClamp(w, orient, available_size) ==
    LET clamp(v, lo) == IF v < lo THEN lo ELSE v
    IN  IF orient = "Vertical"
        THEN Vec2(clamp(IF ~is_nan(w.width) THEN w.width ELSE available_size.x,
                        w.min_size.x),
                  Inf)
        ELSE Vec2(Inf,
                  clamp(IF ~is_nan(w.height) THEN w.height ELSE available_size.y,
                        w.min_size.y))

\* The constraint every child is measured with.
ChildConstraint(w, orient, available_size) ==
    LET clamp(v, lo, hi) ==
            LET a == IF v < lo THEN lo ELSE v
            IN  IF a > hi THEN hi ELSE a
    IN  IF orient = "Vertical"
        THEN Vec2(clamp(IF ~is_nan(w.width) THEN w.width ELSE available_size.x,
                        w.min_size.x, w.max_size.x),
                  Inf)
        ELSE Vec2(Inf,
                  clamp(IF ~is_nan(w.height) THEN w.height ELSE available_size.y,
                        w.min_size.y, w.max_size.y))

\* Accumulate with the widths summed as the heights are.
Accumulate_SumBoth(orient, measured_size, desired) ==
    Vec2(Add(measured_size.x, desired.x), Add(measured_size.y, desired.y))

\* One turn of the loop over the children: the running measured size with
\* one more child's desired size taken in.
Accumulate(orient, measured_size, desired) ==
    IF orient = "Vertical"
    THEN Vec2(IF desired.x > measured_size.x THEN desired.x ELSE measured_size.x,
              Add(measured_size.y, desired.y))
    ELSE Vec2(Add(measured_size.x, desired.x),
              IF desired.y > measured_size.y THEN desired.y ELSE measured_size.y)

\* ------------------------------------------------- StackPanel: arrange
\* ChildBounds with every child at the panel's origin.
ChildBounds_NoOffset(orient, width, height, desired) ==
    IF orient = "Vertical"
    THEN Rect(0, 0, maxf(width, desired.x), desired.y)
    ELSE Rect(0, 0, desired.x, maxf(height, desired.y))

\* ChildBounds with the children of a horizontal panel all at its origin.
ChildBounds_HorizontalAtOrigin(orient, width, height, desired) ==
    IF orient = "Vertical"
    THEN Rect(0, height, maxf(width, desired.x), desired.y)
    ELSE Rect(0, 0, desired.x, maxf(height, desired.y))

\* The rectangle a child is handed, from the running width and height.
ChildBounds(orient, width, height, desired) ==
    IF orient = "Vertical"
    THEN Rect(0, height, maxf(width, desired.x), desired.y)
    ELSE Rect(width, 0, desired.x, maxf(height, desired.y))

\* Advance with the stacking axis overwritten instead of added to.
Advance_NoSum(orient, width, height, desired) ==
    IF orient = "Vertical"
    THEN Vec2(maxf(width, desired.x), desired.y)
    ELSE Vec2(desired.x, maxf(height, desired.y))

\* The running width and height after a child.
Advance(orient, width, height, desired) ==
    IF orient = "Vertical"
    THEN Vec2(maxf(width, desired.x), Add(height, desired.y))
    ELSE Vec2(Add(width, desired.x), maxf(height, desired.y))

\* The running width and height before the first child.
ArrangeStart(orient, final_size) ==
    IF orient = "Vertical" THEN Vec2(final_size.x, 0) ELSE Vec2(0, final_size.y)

\* The size arrange_override returns.
ArrangeResult(orient, acc, final_size) ==
    IF orient = "Vertical"
    THEN Vec2(acc.x, maxf(acc.y, final_size.y))
    ELSE Vec2(maxf(acc.x, final_size.x), acc.y)

\* ------------------------------------------------- layout driver: measure
\* Measure step 1: the available size, with an explicit width / height in
\* place of it, clamped into [min_size, max_size].
InnerConstraint(w, available_size) ==
    LET clamp(v, lo, hi) ==
            LET a == IF v < lo THEN lo ELSE v
            IN  IF a > hi THEN hi ELSE a
    IN  Vec2(clamp(IF ~is_nan(w.width) THEN w.width ELSE available_size.x,
                   w.min_size.x, w.max_size.x),
             clamp(IF ~is_nan(w.height) THEN w.height ELSE available_size.y,
                   w.min_size.y, w.max_size.y))

\* MeasureCached with the cache never hit.
MeasureCached_Never(w, available_size) == FALSE

\* The cache test of measure.
MeasureCached(w, available_size) ==
    w.measure_valid /\ w.prev_measure = available_size

\* The base widget's own size: a Stretch axis fills the constraint less the
\* margins, any other axis shrinks to the larger of the children's size and 0.
DefaultMeasureSize(w, available_size, from_children) ==
    Vec2(IF w.horizontal_alignment = "Stretch"
            THEN Sub(available_size.x, w.margin.left + w.margin.right)
            ELSE maxf(from_children.x, 0),
         IF w.vertical_alignment = "Stretch"
            THEN Sub(available_size.y, w.margin.top + w.margin.bottom)
            ELSE maxf(from_children.y, 0))

RECURSIVE measure(_, _, _)
RECURSIVE MeasureChildren(_, _, _, _, _)

\* The loop over the children of a measure_override: child i is measured with
\* `constraint`, and its cached desired_size is read back and combined by
\* Accumulate (a stack panel) or by the component-wise maximum (base widget).
\* Returns the pass state and the accumulated size.
MeasureChildren(L, n, i, constraint, acc) ==
    LET children == L.nodes[n].children IN
    IF i > Len(children) THEN [L |-> L, size |-> acc]
    ELSE
        LET child_handle == children[i]
            L1 == measure([L EXCEPT !.cons[child_handle] = constraint],
                          child_handle, constraint)
            desired == L1.nodes[child_handle].desired_size
            next == IF KindOf[n] = "StackPanel"
                    THEN Accumulate(orientation[n], acc, desired)
                    ELSE Vec2(maxf(acc.x, desired.x), maxf(acc.y, desired.y))
        IN  MeasureChildren(L1, n, i + 1, constraint, next)

\* StackPanel::measure_override.
StackMeasureOverride(L, n, available_size) ==
    MeasureChildren(L, n, 1,
                    ChildConstraint(L.nodes[n], orientation[n], available_size),
                    ZERO)

\* The base widget's measure_override (Widget and TextBox do not override it).
DefaultMeasureOverride(L, n, available_size) ==
    LET r == MeasureChildren(L, n, 1, available_size, ZERO)
    IN  [L |-> r.L,
         size |-> DefaultMeasureSize(L.nodes[n], available_size, r.size)]

measure_override(L, n, available_size) ==
    IF KindOf[n] = "StackPanel"
    THEN StackMeasureOverride(L, n, available_size)
    ELSE DefaultMeasureOverride(L, n, available_size)

\* Control::measure.
measure(L, n, available_size) ==
    IF MeasureCached(L.nodes[n], available_size) THEN L
    ELSE
        LET inner == InnerConstraint(L.nodes[n], available_size)
            r == measure_override(L, n, inner)
        IN  [r.L EXCEPT
                !.nodes[n].desired_size = Vec2(maxf(r.size.x, 0), maxf(r.size.y, 0)),
                !.nodes[n].measure_valid = TRUE,
                !.nodes[n].prev_measure = available_size,
                !.ran = @ \cup {n},
                !.args[n] = inner,
                !.rets[n] = r.size]

\* ------------------------------------------------- layout driver: arrange
\* The cache test of arrange.
ArrangeCached(w, final_rect) ==
    w.arrange_valid /\ w.prev_arrange = final_rect

\* The room the final rectangle leaves inside the margins.
InsideMargins(w, final_rect) ==
    Vec2(Sub(final_rect.w, w.margin.left + w.margin.right),
         Sub(final_rect.h, w.margin.top + w.margin.bottom))

\* The size of the node's local rectangle: a Stretch axis takes the whole
\* room, any other axis the desired size; an explicit width / height wins.
ArrangeSize(w, final_rect) ==
    LET room == InsideMargins(w, final_rect)
        sx == IF w.horizontal_alignment = "Stretch" THEN room.x
              ELSE minf(w.desired_size.x, room.x)
        sy == IF w.vertical_alignment = "Stretch" THEN room.y
              ELSE minf(w.desired_size.y, room.y)
    IN  Vec2(IF ~is_nan(w.width) THEN w.width ELSE sx,
             IF ~is_nan(w.height) THEN w.height ELSE sy)

\* The origin of the node's local rectangle: inside the margins, at the
\* start (Left / Top / Stretch), the centre or the far edge (Right / Bottom).
ArrangeOrigin(w, final_rect, size) ==
    LET room == InsideMargins(w, final_rect)
        off(a, free) == IF a = "Center"
                            THEN (IF free = Inf THEN Inf ELSE free \div 2)
                        ELSE IF a \in {"Right", "Bottom"} THEN free
                        ELSE 0
        fx == IF size.x = Inf THEN 0 ELSE Sub(room.x, size.x)
        fy == IF size.y = Inf THEN 0 ELSE Sub(room.y, size.y)
    IN  Vec2(Add(Add(final_rect.x, w.margin.left), off(w.horizontal_alignment, fx)),
             Add(Add(final_rect.y, w.margin.top), off(w.vertical_alignment, fy)))

RECURSIVE arrange(_, _, _)
RECURSIVE StackArrangeChildren(_, _, _, _)
RECURSIVE DefaultArrangeChildren(_, _, _, _)

\* The loop over the children of StackPanel::arrange_override; acc holds the
\* running width and height.  Returns the pass state and the final acc.
StackArrangeChildren(L, n, i, acc) ==
    LET children == L.nodes[n].children IN
    IF i > Len(children) THEN [L |-> L, size |-> acc]
    ELSE
        LET child_handle == children[i]
            desired == L.nodes[child_handle].desired_size
            child_bounds == ChildBounds(orientation[n], acc.x, acc.y, desired)
            L1 == arrange([L EXCEPT !.rects[child_handle] = child_bounds],
                          child_handle, child_bounds)
        IN  StackArrangeChildren(L1, n, i + 1,
                                 Advance(orientation[n], acc.x, acc.y, desired))

\* StackPanel::arrange_override.
StackArrangeOverride(L, n, final_size) ==
    LET r == StackArrangeChildren(L, n, 1, ArrangeStart(orientation[n], final_size))
    IN  [L |-> r.L, size |-> ArrangeResult(orientation[n], r.size, final_size)]

\* The base widget's arrange_override: every child gets the whole rectangle.
DefaultArrangeChildren(L, n, i, final_size) ==
    LET children == L.nodes[n].children IN
    IF i > Len(children) THEN L
    ELSE
        LET child_handle == children[i]
            child_bounds == Rect(0, 0, final_size.x, final_size.y)
            L1 == arrange([L EXCEPT !.rects[child_handle] = child_bounds],
                          child_handle, child_bounds)
        IN  DefaultArrangeChildren(L1, n, i + 1, final_size)

DefaultArrangeOverride(L, n, final_size) ==
    [L |-> DefaultArrangeChildren(L, n, 1, final_size), size |-> final_size]

arrange_override(L, n, final_size) ==
    IF KindOf[n] = "StackPanel"
    THEN StackArrangeOverride(L, n, final_size)
    ELSE DefaultArrangeOverride(L, n, final_size)

\* Control::arrange.
arrange(L, n, final_rect) ==
    IF ArrangeCached(L.nodes[n], final_rect) THEN L
    ELSE
        LET w == L.nodes[n]
            size == ArrangeSize(w, final_rect)
            r == arrange_override(L, n, size)
        IN  [r.L EXCEPT
                !.nodes[n].actual_size = r.size,
                !.nodes[n].actual_local_position = ArrangeOrigin(w, final_rect, size),
                !.nodes[n].arrange_valid = TRUE,
                !.nodes[n].prev_arrange = final_rect,
                !.ran = @ \cup {n},
                !.args[n] = size,
                !.rets[n] = r.size]

\* The absolute position of a node: its own local position on top of its
\* parent's absolute position (the root: its own local position).
RECURSIVE ScreenPositionOf(_, _)
ScreenPositionOf(ns, n) ==
    IF ns[n].parent = NONE THEN ns[n].actual_local_position
    ELSE LET p == ScreenPositionOf(ns, ns[n].parent)
         IN  Vec2(Add(p.x, ns[n].actual_local_position.x),
                  Add(p.y, ns[n].actual_local_position.y))

\* The search of Widget::has_descendant on the arena ns, from the i-th child
\* of n on: "found", "absent", or "panic" when it borrows a child whose handle
\* names no node of the arena.
RECURSIVE HasDescendantFrom(_, _, _, _)
HasDescendantFrom(ns, n, i, node_handle) ==
    IF i > Len(ns[n].children) THEN "absent"
    ELSE LET child_handle == ns[n].children[i] IN
         IF child_handle = node_handle THEN "found"
         ELSE IF child_handle \notin DOMAIN ns THEN "panic"
         ELSE LET result == HasDescendantFrom(ns, child_handle, 1, node_handle)
              IN  IF result # "absent" THEN result
                  ELSE HasDescendantFrom(ns, n, i + 1, node_handle)

\* Widget::has_descendant, where it returns.
has_descendant(ns, n, node_handle) ==
    HasDescendantFrom(ns, n, 1, node_handle) = "found"

\* Widget::has_descendant, where it panics instead.
has_descendant_panics(ns, n, node_handle) ==
    HasDescendantFrom(ns, n, 1, node_handle) = "panic"

\* The end of an arrange pass from root: the screen positions of the root
\* and of everything below it are propagated top-down.
UpdateScreenPositions(ns, root) ==
    [n \in Nodes |->
        IF n = root \/ has_descendant(ns, root, n)
        THEN [ns[n] EXCEPT !.screen_position = ScreenPositionOf(ns, n)]
        ELSE ns[n]]

\* Widget::get_screen_bounds.
get_screen_bounds(w) ==
    Rect(w.screen_position.x, w.screen_position.y, w.actual_size.x, w.actual_size.y)

\* ----------------------------------------------------------------- TextBox
\* FormattedText: the raw text is a sequence of characters; its lines are the
\* runs between line breaks, each with the range [begin, end) of its
\* characters (0-based).  A text without characters has no line.
NewLine == "\n"

is_control(c) == c = NewLine

RECURSIVE LinesFrom(_, _, _)
LinesFrom(text, begin, i) ==
    IF i > Len(text) THEN <<[begin |-> begin, end |-> Len(text)]>>
    ELSE IF text[i] = NewLine
         THEN <<[begin |-> begin, end |-> i - 1]>> \o LinesFrom(text, i, i + 1)
         ELSE LinesFrom(text, begin, i + 1)

get_lines(text) == IF text = <<>> THEN <<>> ELSE LinesFrom(text, 0, 1)

LineLen(line) == line.end - line.begin

\* FormattedText::insert_char and remove_at, at a 0-based position.
InsertAt(text, c, position) ==
    SubSeq(text, 1, position) \o <<c>> \o SubSeq(text, position + 1, Len(text))

RemoveAt(text, position) ==
    SubSeq(text, 1, position) \o SubSeq(text, position + 2, Len(text))

\* The font: every glyph is GlyphSize wide and high and advances by it, and a
\* line is Ascender high.
GlyphSize == 1
Ascender == 1

\* Rect::contains.
Contains(r, x, y) ==
    x >= r.x /\ x <= r.x + r.w /\ y >= r.y /\ y <= r.y + r.h

Position(line, offset) == [line |-> line, offset |-> offset]

SelectionRange(begin, end) == [begin |-> begin, end |-> end]

\* TextBox::reset_blink.
reset_blink(b) == [b EXCEPT !.caret_visible = TRUE]

\* The loop of move_caret_x over the lines of the text; indexing a line that
\* does not exist panics.
RECURSIVE MoveCaretLoop(_, _, _, _)
MoveCaretLoop(b, lines, offset, direction) ==
    IF offset = 0 \/ b.panicked THEN b
    ELSE IF direction = "Left"
    THEN IF b.caret_offset > 0
         THEN MoveCaretLoop([b EXCEPT !.caret_offset = @ - 1],
                            lines, offset - 1, direction)
         ELSE IF b.caret_line > 0
         THEN IF b.caret_line - 1 >= Len(lines)
              THEN [b EXCEPT !.caret_line = @ - 1, !.panicked = TRUE]
              ELSE MoveCaretLoop([b EXCEPT !.caret_line = @ - 1,
                                           !.caret_offset = LineLen(lines[b.caret_line])],
                                 lines, offset - 1, direction)
         ELSE [b EXCEPT !.caret_offset = 0]
    ELSE IF b.caret_line >= Len(lines)
         THEN [b EXCEPT !.panicked = TRUE]
         ELSE LET line == lines[b.caret_line + 1] IN
              IF b.caret_offset < LineLen(line)
              THEN MoveCaretLoop([b EXCEPT !.caret_offset = @ + 1],
                                 lines, offset - 1, direction)
              ELSE IF b.caret_line < Len(lines) - 1
              THEN MoveCaretLoop([b EXCEPT !.caret_line = @ + 1, !.caret_offset = 0],
                                 lines, offset - 1, direction)
              ELSE [b EXCEPT !.caret_offset = LineLen(line)]

\* TextBox::move_caret_x.
move_caret_x(b, offset, direction) ==
    LET b1 == reset_blink([b EXCEPT !.selection_range = None])
        lines == get_lines(b.text)
    IN  IF lines = <<>>
        THEN [b1 EXCEPT !.caret_offset = 0, !.caret_line = 0]
        ELSE MoveCaretLoop(b1, lines, offset, direction)

\* move_caret_y that brings the offset back into the new line.
move_caret_y_ClampsOffset(b, offset, direction) ==
    LET lines == get_lines(b.text)
        line_count == Len(lines)
        line == IF direction = "Down"
                THEN minf(b.caret_line + offset, line_count - 1)
                ELSE maxf(b.caret_line - offset, 0)
    IN  IF lines = <<>> THEN b
        ELSE [b EXCEPT !.caret_line = line,
                       !.caret_offset = minf(@, LineLen(lines[line + 1]))]

\* TextBox::move_caret_y.
move_caret_y(b, offset, direction) ==
    LET lines == get_lines(b.text)
        line_count == Len(lines)
    IN  IF lines = <<>> THEN b
        ELSE IF direction = "Down"
        THEN IF b.caret_line + offset >= line_count
             THEN [b EXCEPT !.caret_line = line_count - 1]
             ELSE [b EXCEPT !.caret_line = @ + offset]
        ELSE IF b.caret_line > offset
             THEN [b EXCEPT !.caret_line = @ - offset]
             ELSE [b EXCEPT !.caret_line = 0]

\* TextBox::get_absolute_position: Option<usize>.
get_absolute_position(b) ==
    LET lines == get_lines(b.text) IN
    IF b.caret_line < Len(lines)
    THEN LET line == lines[b.caret_line + 1]
         IN  Some(line.begin + minf(b.caret_offset, LineLen(line)))
    ELSE None

\* TextBox::insert_char.
insert_char(b, c) ==
    IF ~is_control(c)
    THEN LET position == unwrap_or(get_absolute_position(b), 0)
         IN  move_caret_x([b EXCEPT !.text = InsertAt(@, c, position)], 1, "Right")
    ELSE b

\* TextBox::get_text_len.
get_text_len(b) == Len(b.text)

\* TextBox::remove_char.
remove_char(b, direction) ==
    LET abs == get_absolute_position(b) IN
    IF abs = None THEN b
    ELSE LET position == abs[1]
             text_len == get_text_len(b)
         IN  IF text_len = 0 THEN b
             ELSE IF direction = "Left" /\ position = 0 THEN b
             ELSE IF direction = "Right" /\ position >= text_len THEN b
             ELSE LET at == IF direction = "Left" THEN position - 1 ELSE position
                      b1 == [b EXCEPT !.text = RemoveAt(@, at)]
                  IN  IF direction = "Left" THEN move_caret_x(b1, 1, direction)
                      ELSE b1

\* The search of screen_pos_to_text_pos through the characters of one line.
RECURSIVE CharAt(_, _, _, _, _)
CharAt(line, offset, x, y, screen_pos) ==
    IF line.begin + offset >= line.end THEN None
    ELSE IF Contains(Rect(x, y, GlyphSize, GlyphSize), screen_pos.x, screen_pos.y)
         THEN Some(offset)
         ELSE CharAt(line, offset + 1, x + GlyphSize, y, screen_pos)

\* The search of screen_pos_to_text_pos through the lines.
RECURSIVE LineAt(_, _, _, _)
LineAt(lines, line_index, caret_pos, screen_pos) ==
    IF line_index >= Len(lines) THEN None
    ELSE LET line == lines[line_index + 1]
             line_bounds == Rect(caret_pos.x, caret_pos.y,
                                 LineLen(line) * GlyphSize, Ascender)
             hit == IF Contains(line_bounds, screen_pos.x, screen_pos.y)
                    THEN CharAt(line, 0, line_bounds.x, line_bounds.y, screen_pos)
                    ELSE None
         IN  IF hit # None THEN Some(Position(line_index, hit[1]))
             ELSE LineAt(lines, line_index + 1,
                         Vec2(caret_pos.x, caret_pos.y + Ascender), screen_pos)

\* TextBox::screen_pos_to_text_pos: Option<Position>.
screen_pos_to_text_pos(b, w, screen_pos) ==
    LineAt(get_lines(b.text), 0, w.screen_position, screen_pos)

\* ------------------------------------------------------------------ events
MouseButtons == {"Left", "Right"}

KeyCodes == {"Up", "Down", "Left", "Right", "Delete", "Backspace", "A"}

\* The kinds of event with their fields; a field a kind lacks is "none".
Kind(kind, symbol, code, pos, button) ==
    [kind |-> kind, symbol |-> symbol, code |-> code, pos |-> pos, button |-> button]

\* UIEvent::new.
UIEventNew(k) ==
    [ kind |-> k.kind, symbol |-> k.symbol, code |-> k.code, pos |-> k.pos,
      button |-> k.button, handled |-> FALSE, target |-> NONE, source |-> NONE ]

\* UserInterface::capture_mouse and release_mouse_capture.  Whether a capture
\* asked for while another node owns the capture replaces the owner is fixed
\* by the user interface (capture_replaces).
capture_mouse(owner, handle) ==
    IF owner = NONE \/ capture_replaces THEN handle ELSE owner

release_mouse_capture(owner) == NONE

\* HandleEventActs with the events already marked handled left out.
HandleEventActs_UnlessHandled(ns, self_handle, evt) ==
    /\ ~evt.handled
    /\ evt.source = self_handle \/ has_descendant(ns, self_handle, evt.source)

\* The test TextBox::handle_event makes before it acts on an event.
HandleEventActs(ns, self_handle, evt) ==
    evt.source = self_handle \/ has_descendant(ns, self_handle, evt.source)

\* The test panics when the search for the source borrows a missing node.
HandleEventPanics(ns, self_handle, evt) ==
    evt.source # self_handle /\ has_descendant_panics(ns, self_handle, evt.source)

\* The match on the key code of a KeyDown event.
HandleKeyDown(b, code) ==
    CASE code = "Up" -> move_caret_y(b, 1, "Up")
      [] code = "Down" -> move_caret_y(b, 1, "Down")
      [] code = "Right" -> move_caret_x(b, 1, "Right")
      [] code = "Left" -> move_caret_x(b, 1, "Left")
      [] code = "Delete" -> remove_char(b, "Right")
      [] code = "Backspace" -> remove_char(b, "Left")
      [] OTHER -> b

\* The left-button branch of MouseDown, but for the capture.
HandleMouseDown(b, w, pos) ==
    LET b1 == [b EXCEPT !.selection_range = None, !.selecting = TRUE]
        position == screen_pos_to_text_pos(b1, w, pos)
    IN  IF position # None
        THEN [b1 EXCEPT !.caret_line = position[1].line,
                        !.caret_offset = position[1].offset,
                        !.selection_range =
                            Some(SelectionRange(position[1], position[1]))]
        ELSE b1

\* HandleMouseMove without the test of `selecting`.
HandleMouseMove_Always(b, w, pos) ==
    LET position == screen_pos_to_text_pos(b, w, pos) IN
    IF position # None /\ b.selection_range # None
    THEN [b EXCEPT !.selection_range =
                       Some([b.selection_range[1] EXCEPT !.end = position[1]])]
    ELSE b

\* The MouseMove branch.
HandleMouseMove(b, w, pos) ==
    IF b.selecting
    THEN LET position == screen_pos_to_text_pos(b, w, pos) IN
         IF position # None /\ b.selection_range # None
         THEN [b EXCEPT !.selection_range =
                            Some([b.selection_range[1] EXCEPT !.end = position[1]])]
         ELSE b
    ELSE b

\* TextBox::handle_event: the text box state and the capture owner after it,
\* and whether the event passed the test of its source.
handle_event(ns, b, owner, self_handle, evt) ==
    IF HandleEventPanics(ns, self_handle, evt)
    THEN [box |-> [b EXCEPT !.panicked = TRUE], captured |-> owner,
          acted |-> FALSE]
    ELSE IF HandleEventActs(ns, self_handle, evt)
    THEN CASE evt.kind = "Text" ->
                [box |-> insert_char(b, evt.symbol), captured |-> owner,
                 acted |-> TRUE]
           [] evt.kind = "KeyDown" ->
                [box |-> HandleKeyDown(b, evt.code), captured |-> owner,
                 acted |-> TRUE]
           [] evt.kind = "MouseDown" ->
                IF evt.button = "Left"
                THEN [box |-> HandleMouseDown(b, ns[self_handle], evt.pos),
                      captured |-> capture_mouse(owner, self_handle),
                      acted |-> TRUE]
                ELSE [box |-> b, captured |-> owner, acted |-> TRUE]
           [] evt.kind = "MouseMove" ->
                [box |-> HandleMouseMove(b, ns[self_handle], evt.pos),
                 captured |-> owner, acted |-> TRUE]
           [] evt.kind = "MouseUp" ->
                [box |-> [b EXCEPT !.selecting = FALSE],
                 captured |-> release_mouse_capture(owner), acted |-> TRUE]
           [] OTHER -> [box |-> b, captured |-> owner, acted |-> TRUE]
    ELSE [box |-> b, captured |-> owner, acted |-> FALSE]

\* The event router: the event goes to the node it is resolved to, then to
\* each ancestor up to the root; the handler of the node `marker` marks the
\* event handled before the node's own control sees it.
MouseKinds == {"MouseDown", "MouseUp", "MouseMove", "MouseWheel"}

\* One delivery: the control of node n gets the event of the dispatch D.
Deliver(ns, D, n, marker) ==
    LET evt == IF n = marker THEN [D.evt EXCEPT !.handled = TRUE] ELSE D.evt
        r == IF n \in DOMAIN D.boxes
             THEN handle_event(ns, D.boxes[n], D.captured, n, evt)
             ELSE [box |-> NONE, captured |-> D.captured, acted |-> FALSE]
    IN  [ boxes |-> IF n \in DOMAIN D.boxes
                    THEN [D.boxes EXCEPT ![n] = r.box] ELSE D.boxes,
          captured |-> r.captured,
          evt |-> evt,
          delivered |-> Append(D.delivered, n),
          seen |-> Append(D.seen, evt.handled),
          acted |-> IF r.acted THEN D.acted \cup {n} ELSE D.acted ]

\* A router that goes to the root first and comes back down to the node.
RECURSIVE Bubble_OutermostFirst(_, _, _, _)
Bubble_OutermostFirst(ns, D, n, marker) ==
    IF n = NONE THEN D
    ELSE Deliver(ns, Bubble_OutermostFirst(ns, D, ns[n].parent, marker), n, marker)

RECURSIVE Bubble(_, _, _, _)
Bubble(ns, D, n, marker) ==
    IF n = NONE THEN D
    ELSE Bubble(ns, Deliver(ns, D, n, marker), ns[n].parent, marker)

\* Resolve without the capture override.
Resolve_HitTestOnly(owner, k, picked) == picked

\* The node an event of kind k aimed at the node `picked` is resolved to.
Resolve(owner, k, picked) ==
    IF k.kind \in MouseKinds /\ owner # NONE THEN owner ELSE picked

\* What the router does with an event of kind k resolved to `source`.
Routed(ns, bs, owner, k, source, marks) ==
    Bubble(ns,
           [ boxes |-> bs, captured |-> owner,
             evt |-> [UIEventNew(k) EXCEPT !.source = source],
             delivered |-> <<>>, seen |-> <<>>, acted |-> {} ],
           source, IF marks THEN source ELSE NONE)

\* ------------------------------------------------------------------ inputs
\* The builder options the nodes are constructed with.
Profiles ==
    { WidgetBuilderNew,
      [WidgetBuilderNew EXCEPT !.width = Some(1), !.height = Some(MaxDim)],
      [WidgetBuilderNew EXCEPT !.height = Some(MaxDim + 1),
                               !.margin = Some(Thickness(1, 1, 0, 1))],
      [WidgetBuilderNew EXCEPT !.min_size = Some(Vec2(1, 1)),
                               !.horizontal_alignment = Some("Left"),
                               !.vertical_alignment = Some("Top")],
      [WidgetBuilderNew EXCEPT !.width = Some(MaxDim),
                               !.max_size = Some(Vec2(1, Inf)),
                               !.margin = Some(Thickness(0, 1, 0, 0))] }

\* The options of each node: any profile for the root panel, fewer for the rest.
ProfilesOf ==
    { opt \in [Nodes -> Profiles] :
        /\ opt[2].min_size = None /\ opt[2].width = None
        /\ opt[3].margin = None /\ opt[3].min_size = None
        /\ opt[4].max_size = None /\ opt[4].margin = None }

\* The trees the layout passes run on, as parent vectors, each with the
\* single root 1: a flat panel, a panel in a panel, a text box with a child.
LayoutTrees == { <<NONE, 1, 1, 1>>, <<NONE, 4, 4, 1>>, <<NONE, 1, 2, 1>> }

AvailableSizes == {Vec2(MaxDim, MaxDim + 1), Vec2(Inf, Inf)}

FinalRects ==
    { Rect(0, 0, 1, 1), Rect(1, 2, MaxDim, MaxDim + 1) }

\* ------------------------------------------------------------ construction
\* The arena after building the tree par with the options opt of each node,
\* the handles more[n] passed to with_children after the children of n, and
\* adding the nodes to the user interface, which links each child to its
\* parent.
ConstructWith(par, opt, more) ==
    [n \in Nodes |->
        [build(with_children(opt[n], ChildrenFrom(par, n, 1) \o more[n]))
            EXCEPT !.parent = par[n]]]

Construct(par, opt) == ConstructWith(par, opt, [n \in Nodes |-> <<>>])

\* TextBoxBuilder::build with a text; `panicked` is set when a later call on
\* the text box panics.
TextBoxBuild(text) ==
    [ caret_line |-> 0, caret_offset |-> 0, caret_visible |-> TRUE,
      text |-> text, selection_range |-> None, selecting |-> FALSE,
      panicked |-> FALSE ]

NoKind == Kind("none", "none", "none", NoVec, "none")

NoDispatch ==
    [ op |-> "init", node |-> NONE, source |-> NONE,
      delivered |-> <<>>, seen |-> <<>>, acted |-> {} ]

NoRoute ==
    [ kind |-> "none", button |-> "none", hit |-> NONE,
      enters |-> <<>>, leaves |-> <<>> ]

NoFrame ==
    [ phase |-> "events", queue |-> <<>>, count |-> 0, resized |-> {},
      ran |-> {} ]

NoPool == [slots |-> <<>>, spawned |-> 0, issued |-> {}, freed |-> {},
           borrowed |-> <<>>]

NoCall == [op |-> "init"]

NoOp ==
    [ op |-> "init", node |-> NONE, avail |-> NoVec, rect |-> NoRect,
      ran |-> {}, args |-> [n \in Nodes |-> NoVec],
      rets |-> [n \in Nodes |-> NoVec], cons |-> [n \in Nodes |-> NoVec],
      rects |-> [n \in Nodes |-> NoRect] ]

Init ==
    /\ \E par \in LayoutTrees : \E opt \in ProfilesOf :
          nodes = Construct(par, opt)
    /\ orientation = [n \in PanelNodes |-> "Vertical"]
    /\ boxes = [n \in BoxNodes |-> TextBoxBuild(<<>>)]
    /\ captured = NONE
    /\ capture_replaces = TRUE
    /\ picked_node = NONE
    /\ last = NoOp
    /\ disp = NoDispatch
    /\ route = NoRoute
    /\ frame = NoFrame
    /\ pool = NoPool
    /\ call = NoCall
    /\ ops = 0
    /\ sets = 0

Roots == {n \in Nodes : nodes[n].parent = NONE}

\* ----------------------------------------------------------------- actions
\* A measure pass from a root with an available size.
MeasurePass(root, available_size) ==
    LET L == measure(NewPass(nodes), root, available_size) IN
    /\ ops < MaxOps
    /\ nodes' = L.nodes
    /\ last' = [ op |-> "measure", node |-> root, avail |-> available_size,
                 rect |-> NoRect, ran |-> L.ran, args |-> L.args,
                 rets |-> L.rets, cons |-> L.cons, rects |-> L.rects ]
    /\ ops' = ops + 1
    /\ UNCHANGED <<orientation, boxes, captured, capture_replaces,
                 picked_node, disp, route, frame, pool,
                 call, sets>>

\* An arrange pass from a root with a final rectangle.
ArrangePass(root, final_rect) ==
    LET L == arrange(NewPass(nodes), root, final_rect) IN
    /\ ops < MaxOps
    /\ nodes' = UpdateScreenPositions(L.nodes, root)
    /\ last' = [ op |-> "arrange", node |-> root, avail |-> NoVec,
                 rect |-> final_rect, ran |-> L.ran, args |-> L.args,
                 rets |-> L.rets, cons |-> L.cons, rects |-> L.rects ]
    /\ ops' = ops + 1
    /\ UNCHANGED <<orientation, boxes, captured, capture_replaces,
                 picked_node, disp, route, frame, pool,
                 call, sets>>

\* The invalidation of a node's layout, which goes down to its descendants.
InvalidateLayout(n) ==
    /\ ops < MaxOps
    /\ nodes' = [m \in Nodes |->
                    IF m = n \/ has_descendant(nodes, n, m)
                    THEN [nodes[m] EXCEPT !.measure_valid = FALSE,
                                          !.arrange_valid = FALSE]
                    ELSE nodes[m]]
    /\ last' = [NoOp EXCEPT !.op = "invalidate"]
    /\ ops' = ops + 1
    /\ UNCHANGED <<orientation, boxes, captured, capture_replaces,
                 picked_node, disp, route, frame, pool,
                 call, sets>>

\* StackPanel::set_orientation.
set_orientation(n, o) ==
    /\ ops < MaxOps
    /\ orientation' = [orientation EXCEPT ![n] = o]
    /\ last' = [NoOp EXCEPT !.op = "set", !.node = n]
    /\ ops' = ops + 1
    /\ UNCHANGED <<nodes, boxes, captured, capture_replaces,
                 picked_node, disp, route, frame, pool,
                 call, sets>>

\* ------------------------------------------------------- Widget setters
\* A setter call on node n that leaves w2 as its widget.
Setter(n, w2) ==
    /\ ops < MaxOps
    /\ sets < MaxSets
    /\ nodes' = [nodes EXCEPT ![n] = w2]
    /\ last' = [NoOp EXCEPT !.op = "set", !.node = n]
    /\ ops' = ops + 1
    /\ sets' = sets + 1
    /\ UNCHANGED <<orientation, boxes, captured, capture_replaces,
                 picked_node, disp, route, frame, pool,
                 call>>

Floats == {NaN, 1, MaxDim}

SizeVecs == {ZERO, Vec2(1, 1), Vec2(MaxDim, Inf)}

Margins == {ThicknessZero, Thickness(1, 1, 1, 1)}

Colors == {"WHITE", "BLACK"}

Indices == {0, 1}

set_min_size(w, value) == [w EXCEPT !.min_size = value]

set_max_size(w, value) == [w EXCEPT !.max_size = value]

set_background(w, color) == [w EXCEPT !.background = color]

set_foreground(w, color) == [w EXCEPT !.foreground = color]

set_width(w, width) == [w EXCEPT !.width = width]

set_height(w, height) == [w EXCEPT !.height = height]

set_desired_local_position(w, pos) == [w EXCEPT !.desired_local_position = pos]

set_vertical_alignment(w, valign) == [w EXCEPT !.vertical_alignment = valign]

set_horizontal_alignment(w, halign) == [w EXCEPT !.horizontal_alignment = halign]

set_column(w, column) == [w EXCEPT !.column = column]

set_row(w, row) == [w EXCEPT !.row = row]

set_margin(w, margin) == [w EXCEPT !.margin = margin]

set_visibility(w, visibility) == [w EXCEPT !.visibility = visibility]

\* The names set_property and get_property know.
PropertyNames ==
    { "Width", "Height", "VerticalAlignment", "HorizontalAlignment", "Margin",
      "Row", "Column", "Background", "Foreground", "Visibility", "MinSize",
      "MaxSize" }

\* The types a &dyn Any value may have, and the values of each type.
ValueTypes ==
    { "f32", "f64", "usize", "Vec2", "Thickness", "HorizontalAlignment",
      "VerticalAlignment", "Visibility", "Color", "Cell<f32>" }

\* The f64 values: those that are f32 values too, and one between two f32
\* values, with the f32 value next to it.
Doubles ==
    {[f32 |-> x, exact |-> TRUE] : x \in Floats}
    \cup {[f32 |-> 1, exact |-> FALSE]}

\* The cast `as f32`.
as_f32(value) == value.f32

ValuesOf(ty) ==
    CASE ty \in {"f32", "Cell<f32>"} -> Floats
      [] ty = "f64" -> Doubles
      [] ty = "usize" -> Indices
      [] ty = "Vec2" -> SizeVecs
      [] ty = "Thickness" -> Margins
      [] ty = "HorizontalAlignment" -> HorizontalAlignments
      [] ty = "VerticalAlignment" -> VerticalAlignments
      [] ty = "Visibility" -> Visibilities
      [] ty = "Color" -> Colors

\* set_property with a slip: "Column" writes the row as well.
set_property_ColumnWritesRow(w, name, ty, value) ==
    CASE name = "HorizontalAlignment" ->
            IF ty = "HorizontalAlignment"
            THEN [w EXCEPT !.horizontal_alignment = value] ELSE w
      [] name = "VerticalAlignment" ->
            IF ty = "VerticalAlignment"
            THEN [w EXCEPT !.vertical_alignment = value] ELSE w
      [] name = "Width" ->
            IF ty = "f32" THEN [w EXCEPT !.width = value]
            ELSE IF ty = "f64" THEN [w EXCEPT !.width = as_f32(value)] ELSE w
      [] name = "Height" ->
            IF ty = "f32" THEN [w EXCEPT !.height = value]
            ELSE IF ty = "f64" THEN [w EXCEPT !.height = as_f32(value)] ELSE w
      [] name = "Margin" ->
            IF ty = "Thickness" THEN [w EXCEPT !.margin = value] ELSE w
      [] name = "Row" ->
            IF ty = "usize" THEN [w EXCEPT !.row = value] ELSE w
      [] name = "Column" ->
            IF ty = "usize"
            THEN [w EXCEPT !.column = value, !.row = value] ELSE w
      [] name = "Background" ->
            IF ty = "Color" THEN [w EXCEPT !.background = value] ELSE w
      [] name = "Foreground" ->
            IF ty = "Color" THEN [w EXCEPT !.foreground = value] ELSE w
      [] name = "Visibility" ->
            IF ty = "Visibility" THEN [w EXCEPT !.visibility = value] ELSE w
      [] name = "MinSize" ->
            IF ty = "Vec2" THEN [w EXCEPT !.min_size = value] ELSE w
      [] name = "MaxSize" ->
            IF ty = "Vec2" THEN [w EXCEPT !.max_size = value] ELSE w
      [] OTHER -> w

\* Widget::set_property: the value is written when it downcasts to the type
\* of the field the name stands for (Width and Height also take an f64).
set_property(w, name, ty, value) ==
    CASE name = "HorizontalAlignment" ->
            IF ty = "HorizontalAlignment"
            THEN [w EXCEPT !.horizontal_alignment = value] ELSE w
      [] name = "VerticalAlignment" ->
            IF ty = "VerticalAlignment"
            THEN [w EXCEPT !.vertical_alignment = value] ELSE w
      [] name = "Width" ->
            IF ty = "f32" THEN [w EXCEPT !.width = value]
            ELSE IF ty = "f64" THEN [w EXCEPT !.width = as_f32(value)] ELSE w
      [] name = "Height" ->
            IF ty = "f32" THEN [w EXCEPT !.height = value]
            ELSE IF ty = "f64" THEN [w EXCEPT !.height = as_f32(value)] ELSE w
      [] name = "Margin" ->
            IF ty = "Thickness" THEN [w EXCEPT !.margin = value] ELSE w
      [] name = "Row" ->
            IF ty = "usize" THEN [w EXCEPT !.row = value] ELSE w
      [] name = "Column" ->
            IF ty = "usize" THEN [w EXCEPT !.column = value] ELSE w
      [] name = "Background" ->
            IF ty = "Color" THEN [w EXCEPT !.background = value] ELSE w
      [] name = "Foreground" ->
            IF ty = "Color" THEN [w EXCEPT !.foreground = value] ELSE w
      [] name = "Visibility" ->
            IF ty = "Visibility" THEN [w EXCEPT !.visibility = value] ELSE w
      [] name = "MinSize" ->
            IF ty = "Vec2" THEN [w EXCEPT !.min_size = value] ELSE w
      [] name = "MaxSize" ->
            IF ty = "Vec2" THEN [w EXCEPT !.max_size = value] ELSE w
      [] OTHER -> w

\* Widget::get_property: the field the name stands for, as the type it has
\* in the Widget struct, or nothing.
AnyRef(ty, value) == [ty |-> ty, value |-> value]

get_property(w, name) ==
    CASE name = "HorizontalAlignment" ->
            Some(AnyRef("HorizontalAlignment", w.horizontal_alignment))
      [] name = "VerticalAlignment" ->
            Some(AnyRef("VerticalAlignment", w.vertical_alignment))
      [] name = "Width" -> Some(AnyRef("Cell<f32>", w.width))
      [] name = "Height" -> Some(AnyRef("Cell<f32>", w.height))
      [] name = "Margin" -> Some(AnyRef("Thickness", w.margin))
      [] name = "Row" -> Some(AnyRef("usize", w.row))
      [] name = "Column" -> Some(AnyRef("usize", w.column))
      [] name = "Visibility" -> Some(AnyRef("Visibility", w.visibility))
      [] name = "Background" -> Some(AnyRef("Color", w.background))
      [] name = "Foreground" -> Some(AnyRef("Color", w.foreground))
      [] name = "MinSize" -> Some(AnyRef("Vec2", w.min_size))
      [] name = "MaxSize" -> Some(AnyRef("Vec2", w.max_size))
      [] OTHER -> None

SetterCall ==
    \E n \in Nodes :
        \/ \E v \in SizeVecs : Setter(n, set_min_size(nodes[n], v))
        \/ \E v \in SizeVecs : Setter(n, set_max_size(nodes[n], v))
        \/ \E v \in Colors : Setter(n, set_background(nodes[n], v))
        \/ \E v \in Colors : Setter(n, set_foreground(nodes[n], v))
        \/ \E v \in Floats : Setter(n, set_width(nodes[n], v))
        \/ \E v \in Floats : Setter(n, set_height(nodes[n], v))
        \/ \E v \in SizeVecs : Setter(n, set_desired_local_position(nodes[n], v))
        \/ \E v \in VerticalAlignments : Setter(n, set_vertical_alignment(nodes[n], v))
        \/ \E v \in HorizontalAlignments : Setter(n, set_horizontal_alignment(nodes[n], v))
        \/ \E v \in Indices : Setter(n, set_column(nodes[n], v))
        \/ \E v \in Indices : Setter(n, set_row(nodes[n], v))
        \/ \E v \in Margins : Setter(n, set_margin(nodes[n], v))
        \/ \E v \in Visibilities : Setter(n, set_visibility(nodes[n], v))

SetPropertyCall ==
    \E n \in Nodes, name \in PropertyNames \cup {"Name"}, ty \in ValueTypes :
        \E v \in ValuesOf(ty) : Setter(n, set_property(nodes[n], name, ty, v))

Next ==
    \/ \E root \in Roots, a \in AvailableSizes : MeasurePass(root, a)
    \/ \E root \in Roots, r \in FinalRects : ArrangePass(root, r)
    \/ \E n \in Nodes : InvalidateLayout(n)
    \/ \E n \in PanelNodes, o \in Orientations : set_orientation(n, o)

Spec == Init /\ [][Next]_vars

\* The specification of the setters: one tree built with no options, on which
\* the setters act between the passes.
SetterInit ==
    /\ nodes = Construct(<<NONE, 1, 1, 1>>, [n \in Nodes |-> WidgetBuilderNew])
    /\ orientation = [n \in PanelNodes |-> "Vertical"]
    /\ boxes = [n \in BoxNodes |-> TextBoxBuild(<<>>)]
    /\ captured = NONE
    /\ capture_replaces = TRUE
    /\ picked_node = NONE
    /\ last = NoOp
    /\ disp = NoDispatch
    /\ route = NoRoute
    /\ frame = NoFrame
    /\ pool = NoPool
    /\ call = NoCall
    /\ ops = 0
    /\ sets = 0

SetterNext ==
    \/ SetterCall
    \/ SetPropertyCall
    \/ \E n \in PanelNodes, o \in Orientations : set_orientation(n, o)
    \/ \E a \in AvailableSizes : MeasurePass(1, a)
    \/ \E r \in FinalRects : ArrangePass(1, r)

SetterSpec == SetterInit /\ [][SetterNext]_vars

\* The specification of the properties: set_property and get_property
\* called on a widget with any name and any value.
PropertyInit ==
    /\ nodes = Construct(<<NONE, 1, 1, 1>>, [n \in Nodes |-> WidgetBuilderNew])
    /\ orientation = [n \in PanelNodes |-> "Vertical"]
    /\ boxes = [n \in BoxNodes |-> TextBoxBuild(<<>>)]
    /\ captured = NONE
    /\ capture_replaces = TRUE
    /\ picked_node = NONE
    /\ last = NoOp
    /\ disp = NoDispatch
    /\ route = NoRoute
    /\ frame = NoFrame
    /\ pool = NoPool
    /\ call = NoCall
    /\ ops = 0
    /\ sets = 0

SetProperty(n, name, ty, value) ==
    /\ sets < MaxSets
    /\ nodes' = [nodes EXCEPT ![n] = set_property(@, name, ty, value)]
    /\ sets' = sets + 1
    /\ call' = [ op |-> "set_property", node |-> n, name |-> name, ty |-> ty,
                 value |-> value, before |-> nodes[n] ]
    /\ UNCHANGED <<orientation, boxes, captured, capture_replaces, picked_node,
                   last, disp, route, frame, pool, ops>>

\* get_property, right after a set_property on the same widget or not.
GetProperty(n, name) ==
    /\ call.op # "get_property"
    /\ call.op = "set_property" => call.node = n
    /\ call' = [ op |-> "get_property", node |-> n, name |-> name,
                 got |-> get_property(nodes[n], name), after |-> call ]
    /\ UNCHANGED <<nodes, orientation, boxes, captured, capture_replaces,
                   picked_node, last, disp, route, frame, pool, ops, sets>>

PropertyNext ==
    \/ \E n \in {2}, name \in PropertyNames \cup {"Name"}, ty \in ValueTypes :
          \E v \in ValuesOf(ty) : SetProperty(n, name, ty, v)
    \/ \E n \in {2}, name \in PropertyNames \cup {"Name"} : GetProperty(n, name)

PropertySpec == PropertyInit /\ [][PropertyNext]_vars

\* The specification of the builder: options are set on a WidgetBuilder, the
\* widget is built and added to the user interface as node 1, which links
\* the children it names to it.
MaxOptions == 2

OptionValues(option) ==
    CASE option \in {"with_width", "with_height"} -> {1, MaxDim}
      [] option = "with_vertical_alignment" -> {"Top", "Stretch"}
      [] option = "with_horizontal_alignment" -> {"Right"}
      [] option = "with_max_size" -> {Vec2(1, Inf)}
      [] option = "with_min_size" -> {Vec2(1, 1)}
      [] option \in {"with_background", "with_foreground"} -> {"BLACK"}
      [] option \in {"on_row", "on_column"} -> {1}
      [] option = "with_margin" -> {Thickness(1, 1, 0, 1)}
      [] option = "with_desired_position" -> {Vec2(1, 1)}
      [] option = "with_child" -> {2, 3, NONE}
      [] option = "with_children" -> {<<2, 3>>, <<3, 3>>, <<NONE, 2>>, <<>>}
      [] option = "with_hit_test_visibility" -> BOOLEAN
      [] option = "with_visibility" -> {"Hidden", "Collapsed"}

Options ==
    { "with_width", "with_height", "with_vertical_alignment",
      "with_horizontal_alignment", "with_max_size", "with_min_size",
      "with_background", "with_foreground", "on_row", "on_column",
      "with_margin", "with_desired_position", "with_child", "with_children",
      "with_hit_test_visibility", "with_visibility" }

BuildInit ==
    /\ nodes = Construct(<<NONE, NONE, NONE, NONE>>,
                         [n \in Nodes |-> WidgetBuilderNew])
    /\ orientation = [n \in PanelNodes |-> "Vertical"]
    /\ boxes = [n \in BoxNodes |-> TextBoxBuild(<<>>)]
    /\ captured = NONE
    /\ capture_replaces = TRUE
    /\ picked_node = NONE
    /\ last = NoOp
    /\ disp = NoDispatch
    /\ route = NoRoute
    /\ frame = NoFrame
    /\ pool = NoPool
    /\ call = [op |-> "new", builder |-> WidgetBuilderNew, options |-> 0]
    /\ ops = 0
    /\ sets = 0

\* One with_* call on the builder.
With(option, value) ==
    /\ call.op \in {"new", "with"}
    /\ call.options < MaxOptions
    /\ call' = [ op |-> "with", option |-> option, value |-> value,
                 before |-> call.builder,
                 builder |-> with_option(call.builder, option, value),
                 options |-> call.options + 1 ]
    /\ UNCHANGED <<nodes, orientation, boxes, captured, capture_replaces,
                   picked_node, last, disp, route, frame, pool, ops, sets>>

\* UserInterface::add_node of the built widget: the node takes its place in
\* the arena and every child it names gets it as parent.
add_node(ns, n, w) ==
    [m \in Nodes |->
        IF m = n THEN w
        ELSE IF \E i \in DOMAIN w.children : w.children[i] = m
        THEN [ns[m] EXCEPT !.parent = n]
        ELSE ns[m]]

AddNode(n) ==
    /\ call.op \in {"new", "with"}
    /\ nodes' = add_node(nodes, n, build(call.builder))
    /\ call' = [ op |-> "add_node", node |-> n, builder |-> call.builder,
                 built |-> build(call.builder) ]
    /\ UNCHANGED <<orientation, boxes, captured, capture_replaces,
                   picked_node, last, disp, route, frame, pool, ops, sets>>

BuildNext ==
    \/ \E option \in Options : \E value \in OptionValues(option) :
          With(option, value)
    \/ AddNode(1)

BuildSpec == BuildInit /\ [][BuildNext]_vars

\* The specification of the events: a panel with a text box that has a child
\* and with a plain widget, events routed through the tree and events handed
\* to the text box directly.
Chars == {"a", NewLine}

InitialTexts == { <<>>, <<"a", NewLine, "a">> }

Points == { Vec2(0, 0), Vec2(1, 1), Vec2(MaxDim + 1, MaxDim + 1) }

Kinds ==
    {Kind("Text", c, "none", NoVec, "none") : c \in Chars}
    \cup {Kind("KeyDown", "none", code, NoVec, "none") : code \in KeyCodes}
    \cup {Kind("MouseDown", "none", "none", pos, "Left") : pos \in Points}
    \cup {Kind("MouseDown", "none", "none", Vec2(0, 0), "Right")}
    \cup {Kind("MouseMove", "none", "none", pos, "none") : pos \in Points}
    \cup {Kind("MouseUp", "none", "none", Vec2(0, 0), "Left"),
          Kind("KeyUp", "none", "A", NoVec, "none")}

EventTree == <<NONE, 1, 2, 1>>

\* The text box as it is built: its text, and what with_children is given
\* besides its child (nothing, or NONE).
TextBoxInputs ==
    { [text |-> text, more |-> <<>>] : text \in InitialTexts }
    \cup { [text |-> <<>>, more |-> <<NONE>>] }

EventInit ==
    /\ \E in \in TextBoxInputs :
          /\ nodes = ConstructWith(EventTree, [n \in Nodes |-> WidgetBuilderNew],
                                   [n \in Nodes |-> IF n \in BoxNodes THEN in.more ELSE <<>>])
          /\ boxes = [n \in BoxNodes |-> TextBoxBuild(in.text)]
    /\ orientation = [n \in PanelNodes |-> "Vertical"]
    /\ captured = NONE
    /\ capture_replaces = TRUE
    /\ picked_node = NONE
    /\ last = NoOp
    /\ disp = NoDispatch
    /\ route = NoRoute
    /\ frame = NoFrame
    /\ pool = NoPool
    /\ call = NoCall
    /\ ops = 0
    /\ sets = 0

Alive == \A n \in DOMAIN boxes : ~boxes[n].panicked

\* The dispatch of an event of kind k aimed at the node `picked`; with `marks`
\* the handler of the first node it goes to marks it handled.
Dispatch(k, picked, marks) ==
    LET source == Resolve(captured, k, picked)
        D == Routed(nodes, boxes, captured, k, source, marks)
    IN  /\ Alive
        /\ \A n \in DOMAIN boxes : Len(D.boxes[n].text) <= MaxText
        /\ boxes' = D.boxes
        /\ captured' = D.captured
        /\ disp' = [ op |-> "dispatch", node |-> source, source |-> source,
                     delivered |-> D.delivered, seen |-> D.seen,
                     acted |-> D.acted ]
        /\ UNCHANGED <<nodes, orientation, capture_replaces, picked_node,
                       last, ops, sets>>

\* A call of TextBox::handle_event on the text box tb with an event of kind k
\* from any source.
HandleEventCall(tb, k, source) ==
    LET evt == [UIEventNew(k) EXCEPT !.source = source]
        r == handle_event(nodes, boxes[tb], captured, tb, evt)
    IN  /\ Alive
        /\ Len(r.box.text) <= MaxText
        /\ boxes' = [boxes EXCEPT ![tb] = r.box]
        /\ captured' = r.captured
        /\ disp' = [ op |-> "call", node |-> tb, source |-> source,
                     delivered |-> <<tb>>, seen |-> <<evt.handled>>,
                     acted |-> IF r.acted THEN {tb} ELSE {} ]
        /\ UNCHANGED <<nodes, orientation, capture_replaces, picked_node,
                       last, ops, sets>>

EventNext ==
    \/ \E k \in Kinds, picked \in Nodes, marks \in BOOLEAN :
          Dispatch(k, picked, marks) /\ UNCHANGED <<route, frame, pool, call>>
    \/ \E tb \in BoxNodes, k \in Kinds, source \in Handles :
          HandleEventCall(tb, k, source) /\ UNCHANGED <<route, frame, pool, call>>

EventSpec == EventInit /\ [][EventNext]_vars

\* ------------------------------------------------------------------ copies
\* Widget::raw_copy with the validity flags copied as they are.
raw_copy_KeepsFlags(w) ==
    [w EXCEPT !.command_indices = <<>>, !.events = <<>>,
              !.prev_measure = NoVec, !.prev_arrange = NoRect]

\* Widget::raw_copy: every field is cloned but the draw-command indices and
\* the event queue, which start empty, and the two validity flags, which
\* start false; the copy has seen no layout pass.
raw_copy(w) ==
    [w EXCEPT !.command_indices = <<>>, !.measure_valid = FALSE,
              !.arrange_valid = FALSE, !.events = <<>>,
              !.prev_measure = NoVec, !.prev_arrange = NoRect]

\* StackPanel::raw_copy.
StackPanelRawCopy(w, o) ==
    [kind |-> "StackPanel", widget |-> raw_copy(w), orientation |-> o,
     box |-> NONE]

\* TextBox::raw_copy: the fields of the text box are copied, the formatted
\* text is built anew with the font of the original and no text.
TextBoxRawCopy(w, b) ==
    [ kind |-> "TextBox", widget |-> raw_copy(w), orientation |-> "none",
      box |-> [ caret_line |-> b.caret_line, caret_offset |-> b.caret_offset,
                caret_visible |-> b.caret_visible, text |-> <<>>,
                selection_range |-> b.selection_range,
                selecting |-> b.selecting, panicked |-> b.panicked ] ]

\* Control::raw_copy of the node n, by its kind.
ControlRawCopy(n) ==
    CASE KindOf[n] = "StackPanel" -> StackPanelRawCopy(nodes[n], orientation[n])
      [] KindOf[n] = "TextBox" -> TextBoxRawCopy(nodes[n], boxes[n])
      [] OTHER -> [kind |-> "Widget", widget |-> raw_copy(nodes[n]),
                   orientation |-> "none", box |-> NONE]

\* Control::resolve of the three kinds: the body is empty.
resolve(copy, mapping) == copy

\* The specification of the copies: a tree is laid out, its text box takes
\* events, its nodes get events queued and draw commands recorded; then a
\* node is copied, the copy is resolved and the copy is changed.
CopyKinds ==
    { Kind("Text", "a", "none", NoVec, "none"),
      Kind("KeyDown", "none", "Right", NoVec, "none"),
      Kind("KeyDown", "none", "Down", NoVec, "none"),
      Kind("MouseDown", "none", "none", Vec2(0, 0), "Left") }

CopyAvailable == Vec2(MaxDim, MaxDim)

CopyRect == Rect(1, 1, MaxDim, MaxDim)

CopyInit ==
    /\ nodes = Construct(EventTree,
                         [n \in Nodes |->
                            IF n = 3
                            THEN [WidgetBuilderNew EXCEPT
                                    !.width = Some(1), !.height = Some(1),
                                    !.visibility = "Hidden",
                                    !.is_hit_test_visible = FALSE]
                            ELSE WidgetBuilderNew])
    /\ \E o \in Orientations : orientation = [n \in PanelNodes |-> o]
    /\ \E text \in InitialTexts : boxes = [n \in BoxNodes |-> TextBoxBuild(text)]
    /\ captured = NONE
    /\ capture_replaces = TRUE
    /\ picked_node = NONE
    /\ last = NoOp
    /\ disp = NoDispatch
    /\ route = NoRoute
    /\ frame = NoFrame
    /\ pool = NoPool
    /\ call = NoCall
    /\ ops = 0
    /\ sets = 0

\* The user interface queues an event on the node n and records the index
\* of the draw command the node emitted.
Emit(n) ==
    /\ nodes[n].events = <<>>
    /\ nodes' = [nodes EXCEPT ![n].events = <<"MouseEnter">>,
                              ![n].command_indices = <<0>>,
                              ![n].is_mouse_over = TRUE]
    /\ UNCHANGED <<orientation, boxes, captured, capture_replaces,
                   picked_node, last, disp, route, frame, pool, call, ops,
                   sets>>

RawCopy(n) ==
    /\ call.op = "init"
    /\ call' = [ op |-> "raw_copy", node |-> n, before |-> nodes[n],
                 copy |-> ControlRawCopy(n) ]
    /\ UNCHANGED <<nodes, orientation, boxes, captured, capture_replaces,
                   picked_node, last, disp, route, frame, pool, ops, sets>>

\* resolve with the identity mapping of the handles.
ResolveCopy ==
    /\ call.op = "raw_copy"
    /\ call' = [call EXCEPT !.op = "resolve",
                            !.copy = resolve(@, [h \in Nodes |-> h])]
    /\ UNCHANGED <<nodes, orientation, boxes, captured, capture_replaces,
                   picked_node, last, disp, route, frame, pool, ops, sets>>

\* A change of the copy, which the caller owns: a width, the other
\* orientation, a character typed.
ChangedCopy(copy) ==
    [ kind |-> copy.kind,
      widget |-> set_width(copy.widget, MaxDim),
      orientation |-> IF copy.orientation = "Vertical" THEN "Horizontal"
                      ELSE IF copy.orientation = "Horizontal" THEN "Vertical"
                      ELSE copy.orientation,
      box |-> IF copy.kind = "TextBox" THEN insert_char(copy.box, "a")
              ELSE copy.box ]

ChangeCopy ==
    /\ call.op = "resolve"
    /\ call' = [call EXCEPT !.op = "change", !.copy = ChangedCopy(@)]
    /\ UNCHANGED <<nodes, orientation, boxes, captured, capture_replaces,
                   picked_node, last, disp, route, frame, pool, ops, sets>>

CopyNext ==
    \/ /\ call.op = "init" /\ ~nodes[1].measure_valid
       /\ MeasurePass(1, CopyAvailable)
    \/ /\ call.op = "init" /\ nodes[1].measure_valid /\ ~nodes[1].arrange_valid
       /\ ArrangePass(1, CopyRect)
    \/ /\ call.op = "init"
       /\ \E k \in CopyKinds :
             HandleEventCall(2, k, 2) /\ UNCHANGED <<route, frame, pool, call>>
    \/ call.op = "init" /\ \E n \in {2, 3} : Emit(n)
    \/ \E n \in Nodes : RawCopy(n)
    \/ ResolveCopy
    \/ ChangeCopy

CopySpec == CopyInit /\ [][CopyNext]_vars

\* ----------------------------------------------------------------- editing
\* The specification of the text box: a text box with any text of up to
\* MaxText characters takes events from itself, and its editing functions
\* are called with any argument.
MaxMove == 2

RECURSIVE TextsOf(_)
TextsOf(len) ==
    IF len = 0 THEN {<<>>}
    ELSE TextsOf(len - 1)
         \cup {Append(t, c) : t \in {u \in TextsOf(len - 1) : Len(u) = len - 1},
                              c \in Chars}

TextPoints == {Vec2(0, 0), Vec2(2, 0), Vec2(0, 2), Vec2(9, 9)}

TextKinds ==
    {Kind("Text", c, "none", NoVec, "none") : c \in Chars}
    \cup {Kind("KeyDown", "none", code, NoVec, "none") : code \in KeyCodes}
    \cup {Kind("MouseDown", "none", "none", pos, "Left") : pos \in TextPoints}
    \cup {Kind("MouseDown", "none", "none", Vec2(0, 0), "Right")}
    \cup {Kind("MouseMove", "none", "none", pos, "none") : pos \in TextPoints}
    \cup {Kind("MouseUp", "none", "none", Vec2(0, 0), button) :
             button \in MouseButtons}

HorizontalDirections == {"Left", "Right"}

VerticalDirections == {"Down", "Up"}

TextInit ==
    /\ nodes = Construct(EventTree, [n \in Nodes |-> WidgetBuilderNew])
    /\ orientation = [n \in PanelNodes |-> "Vertical"]
    /\ \E text \in TextsOf(MaxText) :
          boxes = [n \in BoxNodes |-> TextBoxBuild(text)]
    /\ captured = NONE
    /\ capture_replaces = TRUE
    /\ picked_node = NONE
    /\ last = NoOp
    /\ disp = NoDispatch
    /\ route = NoRoute
    /\ frame = NoFrame
    /\ pool = NoPool
    /\ call = NoCall
    /\ ops = 0
    /\ sets = 0

\* A call on the text box tb that leaves b as its state and owner as the
\* owner of the mouse capture.
TextCall(tb, c, b, owner) ==
    /\ ~boxes[tb].panicked
    /\ Len(b.text) <= MaxText
    /\ boxes' = [boxes EXCEPT ![tb] = b]
    /\ captured' = owner
    /\ call' = [c EXCEPT !.before = boxes[tb]]
    /\ UNCHANGED <<nodes, orientation, capture_replaces, picked_node, last,
                   disp, route, frame, pool, ops, sets>>

NoTextCall ==
    [ op |-> "none", kind |-> NoKind, symbol |-> "none", direction |-> "none",
      offset |-> 0, before |-> TextBoxBuild(<<>>) ]

TextEvent(tb, k) ==
    LET r == handle_event(nodes, boxes[tb], captured, tb,
                          [UIEventNew(k) EXCEPT !.source = tb])
    IN  TextCall(tb, [NoTextCall EXCEPT !.op = "handle_event", !.kind = k],
                 r.box, r.captured)

InsertChar(tb, c) ==
    TextCall(tb, [NoTextCall EXCEPT !.op = "insert_char", !.symbol = c],
             insert_char(boxes[tb], c), captured)

RemoveChar(tb, direction) ==
    TextCall(tb, [NoTextCall EXCEPT !.op = "remove_char",
                                    !.direction = direction],
             remove_char(boxes[tb], direction), captured)

MoveCaretX(tb, offset, direction) ==
    TextCall(tb, [NoTextCall EXCEPT !.op = "move_caret_x", !.offset = offset,
                                    !.direction = direction],
             move_caret_x(boxes[tb], offset, direction), captured)

MoveCaretY(tb, offset, direction) ==
    TextCall(tb, [NoTextCall EXCEPT !.op = "move_caret_y", !.offset = offset,
                                    !.direction = direction],
             move_caret_y(boxes[tb], offset, direction), captured)

TextNext ==
    \/ \E k \in TextKinds : TextEvent(2, k)
    \/ \E c \in Chars : InsertChar(2, c)
    \/ \E d \in HorizontalDirections : RemoveChar(2, d)
    \/ \E n \in 0 .. MaxMove, d \in HorizontalDirections : MoveCaretX(2, n, d)
    \/ \E n \in 0 .. MaxMove, d \in VerticalDirections : MoveCaretY(2, n, d)

TextSpec == TextInit /\ [][TextNext]_vars

\* -------------------------------------------------------------- descendants
\* The trees over the nodes with the single root 1: every other node has a
\* parent of a lower handle.
DescendantTrees ==
    { par \in [Nodes -> Handles] :
        /\ par[1] = NONE
        /\ \A n \in Nodes \ {1} : par[n] # NONE /\ par[n] < n }

\* The trees as they are built: at most one node is given NONE by
\* with_children after its children.
DescendantInit ==
    /\ \E par \in DescendantTrees, holder \in Handles :
          nodes = ConstructWith(par, [n \in Nodes |-> WidgetBuilderNew],
                                [n \in Nodes |-> IF n = holder THEN <<NONE>> ELSE <<>>])
    /\ orientation = [n \in PanelNodes |-> "Vertical"]
    /\ boxes = [n \in BoxNodes |-> TextBoxBuild(<<>>)]
    /\ captured = NONE
    /\ capture_replaces = TRUE
    /\ picked_node = NONE
    /\ last = NoOp
    /\ disp = NoDispatch
    /\ route = NoRoute
    /\ frame = NoFrame
    /\ pool = NoPool
    /\ call = NoCall
    /\ ops = 0
    /\ sets = 0

\* A call of Widget::has_descendant on the widget n with the handle
\* node_handle: it returns true ("found") or false ("absent"), or panics.
HasDescendant(n, node_handle) ==
    /\ call' = [ op |-> "has_descendant", node |-> n, handle |-> node_handle,
                 result |-> HasDescendantFrom(nodes, n, 1, node_handle) ]
    /\ UNCHANGED <<nodes, orientation, boxes, captured, capture_replaces,
                   picked_node, last, disp, route, frame, pool, ops, sets>>

DescendantNext ==
    \E n \in Nodes, node_handle \in Handles : HasDescendant(n, node_handle)

DescendantSpec == DescendantInit /\ [][DescendantNext]_vars

\* ------------------------------------------------------------------ capture
\* Two text boxes, the text box 3 a child of the text box 2, and the mouse
\* events a text box handles.
CaptureKinds ==
    { Kind("MouseDown", "none", "none", Vec2(0, 0), "Left"),
      Kind("MouseDown", "none", "none", Vec2(0, 0), "Right"),
      Kind("MouseMove", "none", "none", Vec2(0, 0), "none"),
      Kind("MouseUp", "none", "none", Vec2(0, 0), "Left"),
      Kind("MouseUp", "none", "none", Vec2(0, 0), "Right") }

CaptureInit ==
    /\ nodes = Construct(EventTree, [n \in Nodes |-> WidgetBuilderNew])
    /\ orientation = [n \in PanelNodes |-> "Vertical"]
    /\ \E text \in {<<>>, <<"a">>} : boxes = [n \in {2, 3} |-> TextBoxBuild(text)]
    /\ captured = NONE
    /\ capture_replaces \in BOOLEAN
    /\ picked_node = NONE
    /\ last = NoOp
    /\ disp = NoDispatch
    /\ route = NoRoute
    /\ frame = NoFrame
    /\ pool = NoPool
    /\ call = NoCall
    /\ ops = 0
    /\ sets = 0

\* A call of TextBox::handle_event on the text box tb with a mouse event of
\* kind k from the node source; the call is observed with the capture owner
\* and the text box as they were before it.
HandleMouse(tb, k, source) ==
    LET evt == [UIEventNew(k) EXCEPT !.source = source]
        r == handle_event(nodes, boxes[tb], captured, tb, evt)
    IN  /\ boxes' = [boxes EXCEPT ![tb] = r.box]
        /\ captured' = r.captured
        /\ call' = [ op |-> "handle_event", node |-> tb, kind |-> k.kind,
                     button |-> k.button, source |-> source,
                     owner |-> captured, before |-> boxes[tb],
                     acted |-> r.acted ]
        /\ UNCHANGED <<nodes, orientation, capture_replaces, picked_node,
                       last, disp, route, frame, pool, ops, sets>>

CaptureNext ==
    \E tb \in DOMAIN boxes, k \in CaptureKinds, source \in Nodes :
        HandleMouse(tb, k, source)

CaptureSpec == CaptureInit /\ [][CaptureNext]_vars

\* ---------------------------------------------------------- the two axes
\* The most children a stack panel is laid out with here.
MaxStack == 2

\* The loop over the children of StackPanel::measure_override, on the
\* desired sizes the children report after they were measured: the size
\* measure_override returns.
RECURSIVE StackMeasured(_, _, _)
StackMeasured(orient, measured_size, desired) ==
    IF desired = <<>> THEN measured_size
    ELSE StackMeasured(orient, Accumulate(orient, measured_size, Head(desired)),
                       Tail(desired))

\* The loop over the children of StackPanel::arrange_override on their
\* desired sizes: the rectangles handed to the children so far, and the
\* running width and height.
RECURSIVE StackArranged(_, _, _, _)
StackArranged(orient, acc, rects, desired) ==
    IF desired = <<>> THEN [rects |-> rects, acc |-> acc]
    ELSE StackArranged(orient,
                       Advance(orient, acc.x, acc.y, Head(desired)),
                       Append(rects, ChildBounds(orient, acc.x, acc.y, Head(desired))),
                       Tail(desired))

\* The sequences of up to len desired sizes.
RECURSIVE DesiredOf(_)
DesiredOf(len) ==
    IF len = 0 THEN {<<>>}
    ELSE DesiredOf(len - 1) \cup
         { Append(d, v) : d \in {e \in DesiredOf(len - 1) : Len(e) = len - 1},
                          v \in {Vec2(1, MaxDim), Vec2(MaxDim, 0), Vec2(Inf, 1)} }

\* The sizes a stack panel is built with.
StackWidgets ==
    { [width |-> width, height |-> height, min_size |-> min_size,
       max_size |-> max_size] :
        width \in {NaN, 1, MaxDim + 1}, height \in {NaN, MaxDim},
        min_size \in {ZERO, Vec2(MaxDim, 1)},
        max_size \in {Vec2(Inf, Inf), Vec2(MaxDim, 1)} }

StackAvailable == {Vec2(0, 1), Vec2(MaxDim, MaxDim + 1), Vec2(Inf, Inf)}

StackFinal == {Vec2(0, 1), Vec2(MaxDim + 1, MaxDim)}

\* A stack panel of either orientation is built with its sizes and is about
\* to be laid out with an available size and a final size; its children
\* report the desired sizes `desired`.
StackInit ==
    /\ nodes = Construct(<<NONE, 1, 1, 1>>, [n \in Nodes |-> WidgetBuilderNew])
    /\ orientation = [n \in PanelNodes |-> "Vertical"]
    /\ boxes = [n \in BoxNodes |-> TextBoxBuild(<<>>)]
    /\ captured = NONE
    /\ capture_replaces = TRUE
    /\ picked_node = NONE
    /\ last = NoOp
    /\ disp = NoDispatch
    /\ route = NoRoute
    /\ frame = NoFrame
    /\ pool = NoPool
    /\ \E orient \in Orientations, w \in StackWidgets,
          available_size \in StackAvailable, final_size \in StackFinal,
          desired \in DesiredOf(MaxStack) :
          call = [ op |-> "new", orientation |-> orient, widget |-> w,
                   available_size |-> available_size,
                   final_size |-> final_size, desired |-> desired ]
    /\ ops = 0
    /\ sets = 0

StackStep(c) ==
    /\ call' = c
    /\ UNCHANGED <<nodes, orientation, boxes, captured, capture_replaces,
                   picked_node, last, disp, route, frame, pool, ops, sets>>

\* measure_override of the stack panel: the constraint its children are
\* measured with and the measured size.
StackMeasure ==
    /\ call.op = "new"
    /\ StackStep([ op |-> "measure", orientation |-> call.orientation,
                   widget |-> call.widget,
                   available_size |-> call.available_size,
                   final_size |-> call.final_size, desired |-> call.desired,
                   child_constraint |->
                       ChildConstraint(call.widget, call.orientation,
                                       call.available_size),
                   measured_size |->
                       StackMeasured(call.orientation, ZERO, call.desired) ])

\* arrange_override of the stack panel: the rectangles of its children and
\* the arranged size.
StackArrange ==
    /\ call.op = "measure"
    /\ LET r == StackArranged(call.orientation,
                              ArrangeStart(call.orientation, call.final_size),
                              <<>>, call.desired)
       IN  StackStep([ op |-> "arrange", orientation |-> call.orientation,
                       widget |-> call.widget,
                       available_size |-> call.available_size,
                       final_size |-> call.final_size, desired |-> call.desired,
                       child_constraint |-> call.child_constraint,
                       measured_size |-> call.measured_size,
                       child_bounds |-> r.rects,
                       arranged |-> ArrangeResult(call.orientation, r.acc,
                                                  call.final_size) ])

StackNext == StackMeasure \/ StackArrange

StackSpec == StackInit /\ [][StackNext]_vars

\* ------------------------------------------------------------- hit-testing
\* Whether the node n can be hit at the cursor position pos.
Qualifies(ns, n, pos) ==
    /\ Contains(get_screen_bounds(ns[n]), pos.x, pos.y)
    /\ ns[n].global_visibility
    /\ ns[n].is_hit_test_visible

\* LastQualifying with the first child that qualifies instead of the last.
RECURSIVE LastQualifying_First(_, _, _, _)
LastQualifying_First(ns, n, i, pos) ==
    IF i = 0 THEN NONE
    ELSE LET before == LastQualifying_First(ns, n, i - 1, pos)
         IN  IF before # NONE THEN before
             ELSE IF Qualifies(ns, ns[n].children[i], pos) THEN ns[n].children[i]
             ELSE NONE

\* The last of the first i children of n that qualifies, NONE without one.
RECURSIVE LastQualifying(_, _, _, _)
LastQualifying(ns, n, i, pos) ==
    IF i = 0 THEN NONE
    ELSE IF Qualifies(ns, ns[n].children[i], pos) THEN ns[n].children[i]
    ELSE LastQualifying(ns, n, i - 1, pos)

\* The descent from a node that qualifies to the innermost one that does.
RECURSIVE Descend(_, _, _)
Descend(ns, n, pos) ==
    LET c == LastQualifying(ns, n, Len(ns[n].children), pos)
    IN  IF c = NONE THEN n ELSE Descend(ns, c, pos)

\* The hit node of a cursor position: NONE when the root itself is missed.
hit_test(ns, root, pos) ==
    IF Qualifies(ns, root, pos) THEN Descend(ns, root, pos) ELSE NONE

\* ------------------------------------------------------------ cursor moves
\* A node and its ancestors, innermost first.
RECURSIVE ChainSeq(_, _)
ChainSeq(ns, n) ==
    IF n = NONE THEN <<>> ELSE <<n>> \o ChainSeq(ns, ns[n].parent)

Members(seq) == {seq[i] : i \in DOMAIN seq}

\* Entering with every node of the new chain, new to it or not.
Entering_All(ns, before, hit) == ChainSeq(ns, hit)

\* The nodes MouseEnter goes to when the hit node changes from `before` to
\* `hit`: those of the new chain that were not in the old one.
Entering(ns, before, hit) ==
    LET old == Members(ChainSeq(ns, before))
    IN  SelectSeq(ChainSeq(ns, hit), LAMBDA n : n \notin old)

\* The nodes MouseLeave goes to: those of the old chain not in the new one.
Leaving(ns, before, hit) ==
    LET new == Members(ChainSeq(ns, hit))
    IN  SelectSeq(ChainSeq(ns, before), LAMBDA n : n \notin new)

\* ------------------------------------------------- the pointer specification
\* A tree under the cursor: once it is laid out, the platform's cursor moves
\* and button presses are hit-tested, resolved and dispatched.  The tree is the root
\* panel with a node 2 that has a child or two; node 2, its child 3, or both
\* are text boxes.
PointerSetup(par, flag, bs, replaces) ==
    [par |-> par, flag |-> flag, bs |-> bs, replaces |-> replaces]

PointerSetups ==
    { PointerSetup(<<NONE, 1, 2, 1>>, "none", {2}, TRUE),
      PointerSetup(<<NONE, 1, 2, 1>>, "none", {3}, TRUE),
      PointerSetup(<<NONE, 1, 2, 1>>, "none", {2, 3}, TRUE),
      PointerSetup(<<NONE, 1, 2, 1>>, "invisible", {2, 3}, FALSE),
      PointerSetup(<<NONE, 1, 2, 2>>, "none", {2}, FALSE),
      PointerSetup(<<NONE, 1, 2, 2>>, "no_hit_test", {2}, FALSE) }

\* What is hidden from the cursor: nothing ("none"), node 4 invisible (as the
\* update of the visibility left global_visibility), or node 3 built with
\* with_hit_test_visibility(false).
PointerOptions(flag) ==
    [n \in Nodes |->
        CASE n = 1 -> WidgetBuilderNew
          [] n = 2 -> [WidgetBuilderNew EXCEPT
                           !.width = Some(2), !.height = Some(2),
                           !.horizontal_alignment = Some("Left")]
          [] OTHER -> with_hit_test_visibility(
                          [WidgetBuilderNew EXCEPT
                               !.width = Some(1), !.height = Some(1),
                               !.horizontal_alignment = Some("Left"),
                               !.vertical_alignment = Some("Top")],
                          ~(n = 3 /\ flag = "no_hit_test"))]

Flagged(ns, flag) ==
    IF flag = "invisible"
    THEN [ns EXCEPT ![4].visibility = "Hidden", ![4].global_visibility = FALSE]
    ELSE ns

PointerAvailable == Vec2(4, 4)

PointerRect == Rect(0, 0, 4, 4)

\* Cursor positions: in node 3, on the border node 2 shares with what is
\* below it, in node 2 beside its children, in the root beside its children,
\* and off the root.
PointerPoints ==
    { Vec2(0, 0), Vec2(1, 2), Vec2(2, 1), Vec2(3, 1), Vec2(5, 5) }

PointerInit ==
    /\ \E setup \in PointerSetups :
          /\ nodes = Flagged(Construct(setup.par, PointerOptions(setup.flag)),
                           setup.flag)
          /\ boxes = [n \in setup.bs |-> TextBoxBuild(<<>>)]
          /\ capture_replaces = setup.replaces
    /\ orientation = [n \in PanelNodes |-> "Vertical"]
    /\ captured = NONE
    /\ picked_node = NONE
    /\ last = NoOp
    /\ disp = NoDispatch
    /\ route = NoRoute
    /\ frame = NoFrame
    /\ pool = NoPool
    /\ call = NoCall
    /\ ops = 0
    /\ sets = 0

\* A raw mouse event of kind k at the cursor position, with the nodes ns:
\* hit-tested from the root, resolved and dispatched; MouseEnter went to
\* `enters` and MouseLeave to `leaves` before.
Pointer(ns, k, enters, leaves) ==
    LET hit == hit_test(ns, 1, k.pos)
        source == Resolve(captured, k, hit)
        D == Routed(ns, boxes, captured, k, source, FALSE)
    IN  /\ Alive
        /\ nodes[1].arrange_valid
        /\ boxes' = D.boxes
        /\ captured' = D.captured
        /\ disp' = [ op |-> "dispatch", node |-> source, source |-> source,
                     delivered |-> D.delivered, seen |-> D.seen,
                     acted |-> D.acted ]
        /\ route' = [ kind |-> k.kind, button |-> k.button, hit |-> hit,
                      enters |-> enters, leaves |-> leaves ]
        /\ UNCHANGED <<orientation, capture_replaces, last, frame, pool, call,
                       ops, sets>>

\* A button goes down or up at the cursor position.
Button(k) ==
    /\ Pointer(nodes, k, <<>>, <<>>)
    /\ UNCHANGED <<nodes, picked_node>>

\* The cursor moves to pos: MouseLeave and MouseEnter go to the nodes that
\* left and entered the chain of the hit node, then MouseMove is dispatched.
CursorMove(pos) ==
    LET hit == hit_test(nodes, 1, pos)
        enters == Entering(nodes, picked_node, hit)
        leaves == Leaving(nodes, picked_node, hit)
        ns == [n \in Nodes |->
                 IF n \in Members(enters)
                 THEN [nodes[n] EXCEPT !.is_mouse_over = TRUE]
                 ELSE IF n \in Members(leaves)
                 THEN [nodes[n] EXCEPT !.is_mouse_over = FALSE]
                 ELSE nodes[n]]
    IN  /\ Pointer(ns, Kind("MouseMove", "none", "none", pos, "none"),
                   enters, leaves)
        /\ nodes' = ns
        /\ picked_node' = hit

PointerNext ==
    \/ ~nodes[1].measure_valid /\ MeasurePass(1, PointerAvailable)
    \/ nodes[1].measure_valid /\ ~nodes[1].arrange_valid
          /\ ArrangePass(1, PointerRect)
    \/ \E pos \in PointerPoints : CursorMove(pos)
    \/ \E pos \in PointerPoints :
          Button(Kind("MouseDown", "none", "none", pos, "Left"))
    \/ Button(Kind("MouseDown", "none", "none", Vec2(0, 0), "Right"))
    \/ \E pos \in PointerPoints :
          Button(Kind("MouseUp", "none", "none", pos, "Left"))

PointerSpec == PointerInit /\ [][PointerNext]_vars

\* --------------------------------------------------- the frame specification
\* The frame of the user interface: the queued events are dispatched, then
\* the layout passes run, then update, then draw.  The platform hands in
\* its events at the start of a frame; the handler of an event resizes its
\* own widget with Widget::set_width.
MaxQueue == 2

MaxFrames == 2

FrameEvents == {[node |-> n, width |-> v] : n \in {2, 3}, v \in {1, MaxDim}}

FrameAvailable == Vec2(MaxDim + 1, MaxDim + 1)

FrameRect == Rect(0, 0, MaxDim + 1, MaxDim + 1)

FrameInit ==
    /\ nodes = Construct(<<NONE, 1, 1, 1>>, [n \in Nodes |-> WidgetBuilderNew])
    /\ orientation = [n \in PanelNodes |-> "Vertical"]
    /\ boxes = [n \in BoxNodes |-> TextBoxBuild(<<>>)]
    /\ captured = NONE
    /\ capture_replaces = TRUE
    /\ picked_node = NONE
    /\ last = NoOp
    /\ disp = NoDispatch
    /\ route = NoRoute
    /\ frame = NoFrame
    /\ pool = NoPool
    /\ call = NoCall
    /\ ops = 0
    /\ sets = 0

FrameStep(ns, f) ==
    /\ nodes' = ns
    /\ frame' = f
    /\ UNCHANGED <<orientation, boxes, captured, capture_replaces, picked_node,
                   last, disp, route, pool, call, ops, sets>>

\* The platform queues an event.
Post(e) ==
    /\ frame.phase = "events"
    /\ frame.count < MaxFrames
    /\ Len(frame.queue) < MaxQueue
    /\ FrameStep(nodes, [frame EXCEPT !.queue = Append(@, e)])

\* The first queued event is dispatched: its handler sets the width of its
\* widget.
HandleQueued ==
    /\ frame.phase = "events"
    /\ frame.queue # <<>>
    /\ LET e == Head(frame.queue) IN
       FrameStep([nodes EXCEPT ![e.node] = set_width(@, e.width)],
                 [frame EXCEPT
                     !.queue = Tail(@),
                     !.resized = IF nodes[e.node].width # e.width
                                 THEN @ \cup {e.node} ELSE @])

\* With no event left the layout starts: the measure pass, then the arrange
\* pass.
FrameMeasure ==
    /\ frame.phase = "events"
    /\ frame.queue = <<>>
    /\ frame.count < MaxFrames
    /\ LET L == measure(NewPass(nodes), 1, FrameAvailable) IN
       FrameStep(L.nodes, [frame EXCEPT !.phase = "arrange", !.ran = L.ran])

FrameArrange ==
    /\ frame.phase = "arrange"
    /\ LET L == arrange(NewPass(nodes), 1, FrameRect) IN
       FrameStep(UpdateScreenPositions(L.nodes, 1),
                 [frame EXCEPT !.phase = "update"])

\* Control::update of every node (no node of this tree changes by it).
FrameUpdate ==
    /\ frame.phase = "update"
    /\ FrameStep(nodes, [frame EXCEPT !.phase = "draw"])

\* The draw, which ends the frame.
FrameDraw ==
    /\ frame.phase = "draw"
    /\ FrameStep(nodes, [frame EXCEPT !.phase = "events", !.count = @ + 1,
                                     !.resized = {}, !.ran = {}])

FrameNext ==
    \/ \E e \in FrameEvents : Post(e)
    \/ HandleQueued
    \/ FrameMeasure
    \/ FrameArrange
    \/ FrameUpdate
    \/ FrameDraw

FrameSpec == FrameInit /\ [][FrameNext]_vars

\* ---------------------------------------------------- the arena specification
\* The pool behind the arena: a slot holds a generation and a payload or
\* nothing; a handle is the index of a slot and the generation the slot had
\* when the handle was given out.  The payloads are numbered as they are
\* spawned; `issued` keeps which handle was given out for which payload and
\* `freed` which payloads were removed (observers).
MaxSlots == 2

MaxSpawns == 4

Empty == 0

PoolHandle(index, generation) == [index |-> index, generation |-> generation]

PoolHandles ==
    {PoolHandle(i, g) : i \in 1 .. MaxSlots + 1, g \in 1 .. MaxSpawns}

\* Pool::is_valid_handle with the generation left out of the test.
is_valid_handle_IndexOnly(pl, h) ==
    /\ h.index \in DOMAIN pl.slots
    /\ pl.slots[h.index].payload # Empty

\* Pool::is_valid_handle.
is_valid_handle(pl, h) ==
    /\ h.index \in DOMAIN pl.slots
    /\ pl.slots[h.index].generation = h.generation
    /\ pl.slots[h.index].payload # Empty

\* The two results of a borrow.
Ok(v) == [ok |-> TRUE, value |-> v]

InvalidHandle == [ok |-> FALSE, value |-> Empty]

\* The borrow of a handle: the payload of its slot, or InvalidHandle.
get(pl, h) ==
    IF is_valid_handle(pl, h) THEN Ok(pl.slots[h.index].payload)
    ELSE InvalidHandle

FreeSlots(pl) == {i \in DOMAIN pl.slots : pl.slots[i].payload = Empty}

\* The allocation of a payload: in a free slot when there is one, else in a
\* new slot.
Spawn ==
    /\ pool.spawned < MaxSpawns
    /\ \E i \in 1 .. MaxSlots :
          /\ \/ i \in FreeSlots(pool)
             \/ FreeSlots(pool) = {} /\ i = Len(pool.slots) + 1
          /\ LET id == pool.spawned + 1
                 generation == IF i \in DOMAIN pool.slots
                               THEN pool.slots[i].generation ELSE 1
                 slot == [generation |-> generation, payload |-> id]
             IN  pool' = [pool EXCEPT
                     !.slots = IF i \in DOMAIN pool.slots
                               THEN [@ EXCEPT ![i] = slot] ELSE Append(@, slot),
                     !.spawned = id,
                     !.issued = @ \cup {[handle |-> PoolHandle(i, generation),
                                         id |-> id]},
                     !.borrowed = <<>>]
    /\ UNCHANGED <<nodes, orientation, boxes, captured, capture_replaces,
                   picked_node, last, disp, route, frame, call, ops, sets>>

\* The removal of the node of a handle: its slot is emptied and takes the
\* next generation.  An invalid handle fails with InvalidHandle.
Remove(h) ==
    /\ is_valid_handle(pool, h)
    /\ pool' = [pool EXCEPT
                    !.slots[h.index] = [generation |-> @.generation + 1,
                                        payload |-> Empty],
                    !.freed = @ \cup {pool.slots[h.index].payload},
                    !.borrowed = <<>>]
    /\ UNCHANGED <<nodes, orientation, boxes, captured, capture_replaces,
                   picked_node, last, disp, route, frame, call, ops, sets>>

\* A borrow through a handle, any handle.
Borrow(h) ==
    /\ pool' = [pool EXCEPT !.borrowed = <<[handle |-> h, got |-> get(pool, h)]>>]
    /\ UNCHANGED <<nodes, orientation, boxes, captured, capture_replaces,
                   picked_node, last, disp, route, frame, call, ops, sets>>

ArenaInit ==
    /\ nodes = Construct(<<NONE, 1, 1, 1>>, [n \in Nodes |-> WidgetBuilderNew])
    /\ orientation = [n \in PanelNodes |-> "Vertical"]
    /\ boxes = [n \in BoxNodes |-> TextBoxBuild(<<>>)]
    /\ captured = NONE
    /\ capture_replaces = TRUE
    /\ picked_node = NONE
    /\ last = NoOp
    /\ disp = NoDispatch
    /\ route = NoRoute
    /\ frame = NoFrame
    /\ pool = NoPool
    /\ call = NoCall
    /\ ops = 0
    /\ sets = 0

ArenaNext ==
    \/ Spawn
    \/ \E h \in PoolHandles : Remove(h)
    \/ \E h \in PoolHandles : Borrow(h)

ArenaSpec == ArenaInit /\ [][ArenaNext]_vars

\* ================================================================== claims
\* What the claims speak of, computed from the children list directly.
ChildrenOf(n) == nodes[n].children

RECURSIVE SumOver(_, _, _)
\* The sum of f over the first k elements of the sequence hs.
SumOver(f(_), hs, k) ==
    IF k = 0 THEN 0 ELSE Add(SumOver(f, hs, k - 1), f(hs[k]))

RECURSIVE MaxOver(_, _, _)
\* The largest f over the first k elements of hs, 0 when there is none.
MaxOver(f(_), hs, k) ==
    IF k = 0 THEN 0
    ELSE LET m == MaxOver(f, hs, k - 1) IN IF f(hs[k]) > m THEN f(hs[k]) ELSE m

DesiredW(c) == nodes[c].desired_size.x

DesiredH(c) == nodes[c].desired_size.y

\* The stack panels whose override ran in the pass that has just ended.
PanelsRan(op, orient) ==
    IF last.op = op
    THEN {n \in PanelNodes : n \in last.ran /\ orientation[n] = orient}
    ELSE {}

\* C1: right after a measure pass, the value measure_override returned for a
\* vertical stack panel is (largest desired width of its children, sum of
\* their desired heights), the desired sizes being those the children have
\* after the pass measured them; a panel without children returned (0, 0).
C1_VerticalMeasuredSize ==
    \A n \in PanelsRan("measure", "Vertical") :
        /\ last.rets[n] = Vec2(MaxOver(DesiredW, ChildrenOf(n), Len(ChildrenOf(n))),
                               SumOver(DesiredH, ChildrenOf(n), Len(ChildrenOf(n))))
        /\ ChildrenOf(n) = <<>> => last.rets[n] = ZERO

\* C1's case: a vertical panel measured three children, two of them with
\* different finite heights, and an empty panel was measured in the same pass.
C1_Witness ==
    /\ last.op = "measure"
    /\ \E n \in PanelsRan("measure", "Vertical") :
          /\ Len(ChildrenOf(n)) = 3
          /\ \E a, b \in {ChildrenOf(n)[i] : i \in 1 .. 3} :
                /\ DesiredH(a) # DesiredH(b) /\ DesiredH(a) > 0 /\ DesiredH(b) > 0
                /\ DesiredW(a) # DesiredW(b)
          /\ last.rets[n].y # Inf /\ last.rets[n].x # Inf /\ last.rets[n].x > 0
    /\ \E e \in PanelsRan("measure", "Vertical") : ChildrenOf(e) = <<>>

\* C2: right after an arrange pass, a vertical stack panel whose override ran
\* handed its i-th child a rectangle at y = the sum of the desired heights of
\* the children before it, as high as the child's own desired height; so the
\* rectangles follow one another in children order and do not overlap.
C2_VerticalChildRects ==
    \A n \in PanelsRan("arrange", "Vertical") :
        \A i \in 1 .. Len(ChildrenOf(n)) :
            LET r == last.rects[ChildrenOf(n)[i]] IN
            /\ r.y = SumOver(DesiredH, ChildrenOf(n), i - 1)
            /\ r.h = DesiredH(ChildrenOf(n)[i])
            /\ \A j \in 1 .. Len(ChildrenOf(n)) :
                  i < j => Add(r.y, r.h) <= last.rects[ChildrenOf(n)[j]].y

\* C2's case: a vertical panel arranged three children of which the third
\* starts at a finite offset below a second that does not start at 0.
C2_Witness ==
    \E n \in PanelsRan("arrange", "Vertical") :
        /\ Len(ChildrenOf(n)) = 3
        /\ last.rects[ChildrenOf(n)[2]].y > 0
        /\ last.rects[ChildrenOf(n)[3]].y > last.rects[ChildrenOf(n)[2]].y
        /\ last.rects[ChildrenOf(n)[3]].y # Inf

\* The constraint a child must get on the cross axis: the available size, or
\* the panel's explicit size when it is not auto, brought into [lo, hi].
CrossConstraintOk(got, explicit, available, lo, hi) ==
    LET v == IF explicit # NaN THEN explicit ELSE available IN
    /\ got # NaN
    /\ lo <= hi => /\ lo <= got /\ got <= hi
                   /\ (lo <= v /\ v <= hi) => got = v
                   /\ v < lo => got = lo
                   /\ v > hi => got = hi

\* C3: right after a measure pass, every child of a stack panel whose override
\* ran was handed one and the same constraint: infinite along the stacking
\* axis and, on the cross axis, the available size (the panel's explicit
\* width / height instead, when set) clamped into the panel's
\* [min_size, max_size]; it is never the auto sentinel.
C3_ChildConstraint ==
    last.op = "measure" =>
    \A n \in PanelNodes \cap last.ran :
        \A i \in 1 .. Len(ChildrenOf(n)) :
            LET c == last.cons[ChildrenOf(n)[i]]
                w == nodes[n]
            IN  /\ c = last.cons[ChildrenOf(n)[1]]
                /\ IF orientation[n] = "Vertical"
                   THEN /\ c.y = Inf
                        /\ CrossConstraintOk(c.x, w.width, last.args[n].x,
                                             w.min_size.x, w.max_size.x)
                   ELSE /\ c.x = Inf
                        /\ CrossConstraintOk(c.y, w.height, last.args[n].y,
                                             w.min_size.y, w.max_size.y)

\* C3's case: a panel with an explicit width above its max_size measured its
\* children with the max_size, and a horizontal panel measured a child.
C3_Witness ==
    /\ last.op = "measure"
    /\ \E n \in PanelNodes \cap last.ran :
          /\ orientation[n] = "Vertical" /\ ChildrenOf(n) # <<>>
          /\ nodes[n].width # NaN /\ nodes[n].width > nodes[n].max_size.x
          /\ last.cons[ChildrenOf(n)[1]].x = nodes[n].max_size.x
    /\ \E n \in PanelNodes \cap last.ran :
          /\ orientation[n] = "Horizontal" /\ ChildrenOf(n) # <<>>
          /\ last.cons[ChildrenOf(n)[1]].y # Inf

\* The rectangle node n was given in the arrange pass that has just ended.
RectGiven(n) == IF n = last.node THEN last.rect ELSE last.rects[n]

IsAuto(w) == is_nan(w.width) /\ is_nan(w.height)

IsStretch(w) ==
    w.horizontal_alignment = "Stretch" /\ w.vertical_alignment = "Stretch"

FiniteChildren(n) ==
    \A i \in 1 .. Len(ChildrenOf(n)) :
        DesiredW(ChildrenOf(n)[i]) # Inf /\ DesiredH(ChildrenOf(n)[i]) # Inf

\* C4: right after an arrange pass, every node the pass arranged that is
\* Stretch / Stretch with no explicit width or height (a stack panel with
\* children of finite desired size included) has actual_size = the size of
\* the rectangle it was given less its margins.
C4_StretchFillsRect ==
    last.op = "arrange" =>
    \A n \in last.ran :
        (IsStretch(nodes[n]) /\ IsAuto(nodes[n]) /\ FiniteChildren(n)) =>
            nodes[n].actual_size = InsideMargins(nodes[n], RectGiven(n))

\* C5: right after a size-affecting setter call on a widget, its
\* measure_valid and arrange_valid flags are both false.
C5_SetterInvalidates ==
    last.op = "set" =>
        /\ ~nodes[last.node].measure_valid
        /\ ~nodes[last.node].arrange_valid

\* C6: a measure pass that repeats the pass just made (same root, same
\* available size, nothing in between) runs no override, so descends into no
\* child, and leaves every desired_size as it was; likewise a repeated arrange
\* pass runs no override and leaves every actual position and size as it was.
C6_RepeatedPassIsCached ==
    [][ /\ ( /\ last.op = "measure" /\ last'.op = "measure"
             /\ last'.node = last.node /\ last'.avail = last.avail )
           => /\ last'.ran = {}
              /\ \A n \in Nodes : nodes'[n].desired_size = nodes[n].desired_size
        /\ ( /\ last.op = "arrange" /\ last'.op = "arrange"
             /\ last'.node = last.node /\ last'.rect = last.rect )
           => /\ last'.ran = {}
              /\ \A n \in Nodes :
                    /\ nodes'[n].actual_size = nodes[n].actual_size
                    /\ nodes'[n].actual_local_position = nodes[n].actual_local_position
                    /\ nodes'[n].screen_position = nodes[n].screen_position
      ]_vars

\* C6's case: the second of two operations was a measure pass that ran no
\* override on a stack panel with children, all of them measured before: the
\* first operation was the same pass.
C6_Witness ==
    /\ ops = 2 /\ last.op = "measure" /\ last.ran = {}
    /\ KindOf[last.node] = "StackPanel"
    /\ Len(ChildrenOf(last.node)) >= 2
    /\ \A n \in Nodes : nodes[n].measure_valid

\* C7: right after a measure pass, every stack panel the pass measured has a
\* desired_size that is >= 0 and >= its min_size on both axes.
C7_DesiredAtLeastMin ==
    last.op = "measure" =>
    \A n \in PanelNodes \cap last.ran :
        /\ nodes[n].desired_size.x >= 0 /\ nodes[n].desired_size.y >= 0
        /\ nodes[n].desired_size.x >= nodes[n].min_size.x
        /\ nodes[n].desired_size.y >= nodes[n].min_size.y

\* The equation between the screen positions of a node and its parent.
ScreenPositionLinked(n) ==
    LET w == nodes[n] IN
    IF w.parent = NONE THEN w.screen_position = w.actual_local_position
    ELSE w.screen_position =
            Vec2(Add(nodes[w.parent].screen_position.x, w.actual_local_position.x),
                 Add(nodes[w.parent].screen_position.y, w.actual_local_position.y))

\* Where the screen bounds of the i-th child of stack panel p start along the
\* stacking axis, measured from the panel's screen position.
ChildStart(p, i) ==
    LET b == get_screen_bounds(nodes[ChildrenOf(p)[i]])
    IN  IF orientation[p] = "Vertical" THEN b.y ELSE b.x

PanelStart(p) ==
    IF orientation[p] = "Vertical"
    THEN nodes[p].screen_position.y ELSE nodes[p].screen_position.x

\* The sum of the desired sizes of the children before the i-th, along the
\* stacking axis.
RunningSum(p, i) ==
    IF orientation[p] = "Vertical"
    THEN SumOver(DesiredH, ChildrenOf(p), i - 1)
    ELSE SumOver(DesiredW, ChildrenOf(p), i - 1)

LeadingMargin(p, c) ==
    IF orientation[p] = "Vertical" THEN nodes[c].margin.top ELSE nodes[c].margin.left

StartAligned(p, c) ==
    IF orientation[p] = "Vertical"
    THEN nodes[c].vertical_alignment \in {"Stretch", "Top"}
    ELSE nodes[c].horizontal_alignment \in {"Stretch", "Left"}

RECURSIVE InSubtree(_, _)
InSubtree(n, m) ==
    IF m = NONE THEN FALSE
    ELSE IF m = n THEN TRUE
    ELSE InSubtree(n, nodes[m].parent)

\* The nodes an event from `source` bubbles through: the source and every
\* node that has it in its subtree.
BubblingSet(source) == {m \in Nodes : InSubtree(m, source)}

Delivered == {disp.delivered[i] : i \in DOMAIN disp.delivered}

\* The deliveries of the last dispatch that came after the event was marked.
MarkedDeliveries == {i \in DOMAIN disp.delivered : disp.seen[i]}

\* C9: the handled flag has no effect on dispatch: whether or not a listener
\* has marked the event handled, it is delivered to exactly the nodes of the
\* bubbling chain, innermost first, and a text box on the chain acts on it
\* even when it arrives marked.
C9_HandledIsAdvisory ==
    disp.op = "dispatch" =>
        /\ Delivered = BubblingSet(disp.source)
        /\ Len(disp.delivered) = Cardinality(Delivered)
        /\ \A i \in DOMAIN disp.delivered :
              /\ i > 1 => nodes[disp.delivered[i - 1]].parent = disp.delivered[i]
              /\ disp.delivered[i] \in DOMAIN boxes =>
                    disp.delivered[i] \in disp.acted

\* A dispatch from the child of the text box whose first listener marked the
\* event: the text box and then the root panel received it marked, and the
\* text box acted on it.
C9_Witness ==
    /\ disp.op = "dispatch"
    /\ disp.delivered = <<3, 2, 1>>
    /\ MarkedDeliveries = {1, 2, 3}
    /\ 2 \in disp.acted
    /\ boxes[2].text = <<"a">>

\* C10: a call of TextBox::handle_event with an event whose source is neither
\* the text box nor one of its descendants (NONE included) leaves the text,
\* the caret, the selection, the selecting flag and the capture owner as they
\* were.
C10_ForeignEventsIgnored ==
    [][ (disp'.op = "call" /\ ~InSubtree(disp'.node, disp'.source))
            => (boxes' = boxes /\ captured' = captured) ]_vars

\* C13: one dispatch delivers the event to the node it was resolved to first
\* and then to the parent of the node before, one after the other, up to a
\* root; no node gets it twice.
C13_InnermostFirst ==
    disp.op = "dispatch" =>
        /\ Len(disp.delivered) >= 1
        /\ disp.delivered[1] = disp.source
        /\ \A i \in 2 .. Len(disp.delivered) :
              disp.delivered[i] = nodes[disp.delivered[i - 1]].parent
        /\ nodes[disp.delivered[Len(disp.delivered)]].parent = NONE
        /\ \A i, j \in DOMAIN disp.delivered :
              i # j => disp.delivered[i] # disp.delivered[j]

\* An unmarked event sourced at the innermost node of the chain 1 > 2 > 3
\* went to 3, then 2, then 1.
C13_Witness ==
    /\ disp.op = "dispatch"
    /\ disp.source = 3
    /\ disp.delivered = <<3, 2, 1>>
    /\ MarkedDeliveries = {}

\* C14: the hit node of a cursor position is NONE when the root does not
\* qualify there (bounds containing the position, globally visible, hit-test
\* visible); otherwise it is a node that qualifies with all its ancestors,
\* none of whose children qualifies, and at every level of the way down to
\* it no later sibling of the node taken qualifies.
C14_HitTestInnermost ==
    \A pos \in PointerPoints :
        LET hit == hit_test(nodes, 1, pos) IN
        IF ~Qualifies(nodes, 1, pos) THEN hit = NONE
        ELSE /\ hit \in Nodes
             /\ \A m \in Nodes :
                   InSubtree(m, hit) =>
                       /\ Qualifies(nodes, m, pos)
                       /\ nodes[m].parent # NONE =>
                             LET sibs == ChildrenOf(nodes[m].parent) IN
                             \A i, j \in DOMAIN sibs :
                                 (sibs[i] = m /\ j > i) =>
                                     ~Qualifies(nodes, sibs[j], pos)
             /\ \A i \in DOMAIN ChildrenOf(hit) :
                   ~Qualifies(nodes, ChildrenOf(hit)[i], pos)

\* A press at (0, 0) was resolved to node 4, the last of the two children of
\* node 2 that both contain the position, while (2, 1), inside node 2 and
\* outside its children, resolves to node 2 and (5, 5) to nothing.
C14_Witness ==
    /\ route.kind = "MouseDown" /\ route.hit = 4
    /\ ChildrenOf(2) = <<3, 4>>
    /\ Qualifies(nodes, 3, Vec2(0, 0)) /\ Qualifies(nodes, 4, Vec2(0, 0))
    /\ hit_test(nodes, 1, Vec2(0, 0)) = 4
    /\ hit_test(nodes, 1, Vec2(2, 1)) = 2
    /\ hit_test(nodes, 1, Vec2(5, 5)) = NONE

\* A step of the pointer specification that dispatches a mouse-class event.
MouseStep == ops' = ops /\ route'.kind \in MouseKinds

\* C11 as stated: while a capture owner is set, a mouse-class event goes to
\* the owner and its ancestors, and the node found by hit-testing, when it
\* is another node than the owner, never gets it.
C11_AsStated ==
    [][ (MouseStep /\ captured # NONE) =>
            /\ Members(disp'.delivered) = BubblingSet(captured)
            /\ route'.hit # captured =>
                  route'.hit \notin Members(disp'.delivered) ]_vars

\* C11: while a capture owner is set, a mouse-class event goes to the owner
\* and its ancestors and to no other node, wherever the cursor is: the hit
\* node gets it only when it is the owner or one of the owner's ancestors.
\* With no capture owner, as after release_mouse_capture, it goes to the hit
\* node and its ancestors.
C11_CaptureRouting ==
    [][ MouseStep =>
            IF captured # NONE
            THEN /\ Members(disp'.delivered) = BubblingSet(captured)
                 /\ disp'.delivered[1] = captured
                 /\ route'.hit \in Members(disp'.delivered)
                        <=> InSubtree(route'.hit, captured)
            ELSE /\ Members(disp'.delivered) = BubblingSet(route'.hit)
                 /\ route'.hit # NONE => disp'.delivered[1] = route'.hit ]_vars

\* Node 2 owns the capture and the cursor moved onto its sibling 4: the move
\* went to node 2 and the root, not to node 4.
C11_Witness ==
    /\ route.kind = "MouseMove"
    /\ captured = 2
    /\ route.hit = 4 /\ nodes[4].parent = 1
    /\ ~Qualifies(nodes, 2, Vec2(1, 2)) \/ hit_test(nodes, 1, Vec2(1, 2)) = 4
    /\ disp.delivered = <<2, 1>>

\* C12: a selection gesture stays with its text box X.  A left-button
\* MouseDown handled by X leaves X selecting and owning the capture; while
\* X is selecting, any mouse event but a MouseUp handled by X leaves it so,
\* and a MouseMove reaches X; a MouseUp handled by X leaves the capture
\* released and X not selecting.
C12_GestureGlued ==
    [][ MouseStep =>
          \A X \in DOMAIN boxes :
             LET up == route'.kind = "MouseUp" /\ X \in disp'.acted
                 down == /\ route'.kind = "MouseDown" /\ route'.button = "Left"
                         /\ X \in disp'.acted
             IN  /\ down => (boxes'[X].selecting /\ captured' = X)
                 /\ (boxes[X].selecting /\ ~up) =>
                        /\ boxes'[X].selecting /\ captured' = X
                        /\ route'.kind = "MouseMove" =>
                              X \in Members(disp'.delivered)
                 /\ up => (~boxes'[X].selecting /\ captured' = NONE) ]_vars

\* How many times the node n is in the sequence seq.
Times(seq, n) == Cardinality({i \in DOMAIN seq : seq[i] = n})

\* C15: at a cursor move every node that comes into the chain of the hit
\* node gets MouseEnter once and every node that goes out of it gets
\* MouseLeave once, a node that stays in it or out of it gets neither, and
\* MouseEnter only goes to a node whose last of the two, if any, was
\* MouseLeave (is_mouse_over tells which it was), MouseLeave only to one
\* whose last was MouseEnter.
C15_EnterLeaveOnce ==
    [][ (MouseStep /\ route'.kind = "MouseMove") =>
          \A n \in Nodes :
             LET was == InSubtree(n, picked_node)
                 is == InSubtree(n, route'.hit)
             IN  /\ Times(route'.enters, n) = IF is /\ ~was THEN 1 ELSE 0
                 /\ Times(route'.leaves, n) = IF was /\ ~is THEN 1 ELSE 0
                 /\ Times(route'.enters, n) > 0 => ~nodes[n].is_mouse_over
                 /\ Times(route'.leaves, n) > 0 => nodes[n].is_mouse_over
                 /\ nodes'[n].is_mouse_over <=> is ]_vars

\* The cursor came from node 3, inside node 2, onto node 4 beside it: the
\* nodes 3 and 2 got MouseLeave, node 4 MouseEnter, and the root, in both
\* chains, neither.
C15_Witness ==
    /\ route.kind = "MouseMove"
    /\ route.hit = 4
    /\ route.leaves = <<3, 2>>
    /\ route.enters = <<4>>
    /\ nodes[1].is_mouse_over /\ nodes[4].is_mouse_over
    /\ ~nodes[2].is_mouse_over /\ ~nodes[3].is_mouse_over

\* C16: once a frame is past its events no event is left in the queue, and
\* at the draw every widget that changed its width while it handled one of
\* the frame's events has been measured again by the frame's layout.
C16_LayoutAfterEvents ==
    /\ frame.phase # "events" => frame.queue = <<>>
    /\ frame.phase = "draw" => frame.resized \subseteq frame.ran

\* C17: a handle among a text box's children that names no node of the arena
\* is passed over by the walk of has_descendant: no call of handle_event
\* ends in the walk borrowing a node that does not exist.
C17_InvalidHandleSkipped ==
    [][ disp'.op = "call" =>
            ~HandleEventPanics(nodes, disp'.node, [source |-> disp'.source])
      ]_vars

\* C18: a borrow through a handle that was given out for a node since
\* removed yields InvalidHandle, whatever the slot holds by then; a borrow
\* through a handle given out for a node still in the arena yields that
\* node; a borrow never yields a node the handle was not given out for.
C18_StaleHandleFails ==
    \A i \in DOMAIN pool.borrowed :
        LET b == pool.borrowed[i]
            for == {r.id : r \in {r \in pool.issued : r.handle = b.handle}}
        IN  /\ b.got.ok => b.got.value \in for
            /\ for \subseteq pool.freed => b.got = InvalidHandle
            /\ for \ pool.freed # {} =>
                  (b.got.ok /\ b.got.value \in for \ pool.freed)

\* A borrow through the handle of the first node, removed, after its slot
\* was taken by the third node: InvalidHandle, while the slot holds node 3.
C18_Witness ==
    /\ pool.borrowed = <<[handle |-> PoolHandle(1, 1), got |-> InvalidHandle]>>
    /\ 1 \in pool.freed
    /\ pool.slots[1].payload = 3

\* The field of the Widget struct a well-known property name stands for, and
\* the type of that field's value.
FieldOf(name) ==
    CASE name = "Width" -> "width"
      [] name = "Height" -> "height"
      [] name = "VerticalAlignment" -> "vertical_alignment"
      [] name = "HorizontalAlignment" -> "horizontal_alignment"
      [] name = "Margin" -> "margin"
      [] name = "Row" -> "row"
      [] name = "Column" -> "column"
      [] name = "Background" -> "background"
      [] name = "Foreground" -> "foreground"
      [] name = "Visibility" -> "visibility"
      [] name = "MinSize" -> "min_size"
      [] name = "MaxSize" -> "max_size"

PropertyType(name) ==
    CASE name \in {"Width", "Height"} -> "f32"
      [] name = "VerticalAlignment" -> "VerticalAlignment"
      [] name = "HorizontalAlignment" -> "HorizontalAlignment"
      [] name = "Margin" -> "Thickness"
      [] name \in {"Row", "Column"} -> "usize"
      [] name \in {"Background", "Foreground"} -> "Color"
      [] name = "Visibility" -> "Visibility"
      [] name \in {"MinSize", "MaxSize"} -> "Vec2"

\* The types set_property takes for a name: the type of the field, and an
\* f64 as well for the two f32 fields.
Accepted(name) ==
    IF name \in {"Width", "Height"} THEN {"f32", "f64"}
    ELSE {PropertyType(name)}

\* C19: set_property with an unknown name, or with a known name and a value
\* of a type the property does not take, leaves every field of the widget as
\* it was; with a known name and a value of a type the property takes, every
\* field but the one the name stands for is as it was, and that field holds
\* the value (an f64 as the f32 it casts to).
C19_OnlyThatField ==
    call.op = "set_property" =>
        LET before == call.before
            after == nodes[call.node]
        IN  IF call.name \in PropertyNames /\ call.ty \in Accepted(call.name)
            THEN /\ \A f \in DOMAIN before \ {FieldOf(call.name)} :
                        after[f] = before[f]
                 /\ after[FieldOf(call.name)] =
                        IF call.ty = "f64" THEN as_f32(call.value)
                        ELSE call.value
            ELSE after = before

\* A set_property call of each kind has run: here the one with a known name
\* and an f64, which changed the width.
C19_Witness ==
    /\ call.op = "set_property"
    /\ call.name = "Width"
    /\ call.ty = "f64"
    /\ nodes[call.node].width = 1
    /\ call.before.width = NaN

\* C20: get_property right after set_property(name, v), with a well-known
\* name and v of that property's value type, returns a value equal to v of a
\* type set_property takes for that name; for any other name get_property
\* returns nothing.
C20_MatchingPair ==
    call.op = "get_property" =>
        IF call.name \in PropertyNames
        THEN /\ Len(call.got) = 1
             /\ (/\ call.after.op = "set_property"
                 /\ call.after.name = call.name
                 /\ call.after.ty = PropertyType(call.name))
                    => /\ call.got[1].ty \in Accepted(call.name)
                       /\ call.got[1].value = call.after.value
        ELSE call.got = None

\* The number of times the handle n stands in the sequence of handles seq.
Occurrences(seq, n) == Cardinality({i \in DOMAIN seq : seq[i] = n})

\* C21: the parent and children links agree: every node with a parent P
\* stands exactly once in P's children, and every handle in P's children
\* names a node whose parent is P.
C21_LinksAgree ==
    /\ \A n \in Nodes :
          nodes[n].parent # NONE =>
              Occurrences(nodes[nodes[n].parent].children, n) = 1
    /\ \A p \in Nodes : \A i \in DOMAIN nodes[p].children :
          LET h == nodes[p].children[i]
          IN  h \in Nodes /\ nodes[h].parent = p

\* The field of the built widget each option of the builder names.
OptionField(option) ==
    CASE option = "with_width" -> "width"
      [] option = "with_height" -> "height"
      [] option = "with_vertical_alignment" -> "vertical_alignment"
      [] option = "with_horizontal_alignment" -> "horizontal_alignment"
      [] option = "with_max_size" -> "max_size"
      [] option = "with_min_size" -> "min_size"
      [] option = "with_background" -> "background"
      [] option = "with_foreground" -> "foreground"
      [] option = "on_row" -> "row"
      [] option = "on_column" -> "column"
      [] option = "with_margin" -> "margin"
      [] option = "with_desired_position" -> "desired_local_position"
      [] option \in {"with_child", "with_children"} -> "children"
      [] option = "with_hit_test_visibility" -> "is_hit_test_visible"
      [] option = "with_visibility" -> "visibility"

ClonedFields ==
    { "width", "height", "min_size", "max_size", "margin",
      "horizontal_alignment", "vertical_alignment", "desired_local_position",
      "row", "column", "visibility", "global_visibility",
      "is_hit_test_visible", "is_mouse_over", "parent", "children" }

\* C22: the copy Widget::raw_copy makes has the layout inputs, visibility,
\* flags, parent and children handles of the original, its measure_valid and
\* arrange_valid are false, its event queue and draw-command indices are
\* empty, and the original is as it was before the copy.
C22_ShallowClone ==
    call.op = "raw_copy" =>
        LET w == call.before
            c == call.copy.widget
        IN  /\ \A f \in ClonedFields : c[f] = w[f]
            /\ ~c.measure_valid /\ ~c.arrange_valid
            /\ c.events = <<>>
            /\ c.command_indices = <<>>
            /\ nodes[call.node] = w

\* A laid-out node with a child, a queued event and a draw command has been
\* copied.
C22_Witness ==
    /\ call.op = "raw_copy"
    /\ call.before.measure_valid /\ call.before.arrange_valid
    /\ call.before.events # <<>> /\ call.before.command_indices # <<>>
    /\ call.before.children = <<3>> /\ call.before.parent = 1
    /\ call.copy.widget.children = <<3>>

\* C23: raw_copy of a node followed by resolve with the identity mapping of
\* the handles gives a copy that equals the original in the state of its
\* kind (the orientation of a stack panel; the text, caret and selection of
\* a text box), and a change of the copy leaves the original as it was.
C23_CopyEqualsOriginal ==
    /\ call.op = "resolve" =>
          LET n == call.node
              copy == call.copy
          IN  /\ KindOf[n] = "StackPanel" => copy.orientation = orientation[n]
              /\ KindOf[n] = "TextBox" =>
                    /\ copy.box.text = boxes[n].text
                    /\ copy.box.caret_line = boxes[n].caret_line
                    /\ copy.box.caret_offset = boxes[n].caret_offset
                    /\ copy.box.selection_range = boxes[n].selection_range
    /\ call.op = "change" => nodes[call.node] = call.before

\* C25: in every state of a text box, if the text has a line then caret_line
\* is the index of a line of the text and caret_offset is at most the length
\* of that line; move_caret_x never indexes a missing line, and
\* get_absolute_position never exceeds the length of the text.
C25_CaretInText ==
    \A tb \in BoxNodes :
        LET b == boxes[tb]
            lines == get_lines(b.text)
            position == get_absolute_position(b)
        IN  /\ lines # <<>> =>
                  /\ b.caret_line < Len(lines)
                  /\ b.caret_offset <= LineLen(lines[b.caret_line + 1])
            /\ ~b.panicked
            /\ position # None => position[1] <= get_text_len(b)

\* The text box the last call was made on, and its absolute caret position
\* before and after the call (0 where the text has no line for the caret).
Edited == boxes[2]

AbsoluteBefore == unwrap_or(get_absolute_position(call.before), 0)

AbsoluteAfter == unwrap_or(get_absolute_position(Edited), 0)

\* The text with the character c put in at the 0-based position p, and with
\* the character at p taken out.
WithChar(text, c, p) ==
    [i \in 1 .. Len(text) + 1 |->
        IF i <= p THEN text[i] ELSE IF i = p + 1 THEN c ELSE text[i - 1]]

WithoutChar(text, p) ==
    [i \in 1 .. Len(text) - 1 |-> IF i <= p THEN text[i] ELSE text[i + 1]]

\* insert_char was called, directly or for a Text event.
Inserted(c) ==
    \/ call.op = "insert_char" /\ call.symbol = c
    \/ call.op = "handle_event" /\ call.kind.kind = "Text"
         /\ call.kind.symbol = c

\* C26: insert_char(c) with a character c that is no control character
\* gives the old text with c put in at the absolute position of the caret
\* (0 when the text is empty), the text is longer by exactly 1 and the
\* absolute position of the caret is larger by exactly 1; with a control
\* character the text, the caret and the selection are as before.
C26_InsertAtCaret ==
    \A c \in Chars :
        Inserted(c) =>
            IF is_control(c)
            THEN /\ Edited.text = call.before.text
                 /\ Edited.caret_line = call.before.caret_line
                 /\ Edited.caret_offset = call.before.caret_offset
                 /\ Edited.selection_range = call.before.selection_range
            ELSE /\ Edited.text = WithChar(call.before.text, c, AbsoluteBefore)
                 /\ Len(Edited.text) = Len(call.before.text) + 1
                 /\ AbsoluteAfter = AbsoluteBefore + 1

\* Whether the caret of the text box b lies within its line.
CaretInLine(b) ==
    LET lines == get_lines(b.text)
    IN  lines # <<>> =>
            /\ b.caret_line < Len(lines)
            /\ b.caret_offset <= LineLen(lines[b.caret_line + 1])

\* remove_char was called with the direction d, directly or for a key.
Removed(d) ==
    \/ call.op = "remove_char" /\ call.direction = d
    \/ call.op = "handle_event" /\ call.kind.kind = "KeyDown"
         /\ call.kind.code = (IF d = "Left" THEN "Backspace" ELSE "Delete")

\* C27: with the caret at the absolute position p, remove_char(Left) takes
\* out exactly the character at p - 1 and leaves the caret at p - 1, also
\* when that character is a line break; remove_char(Right) takes out exactly
\* the character at p and leaves the caret at p; Left at p = 0, Right at the
\* end of the text, and either on an empty text change nothing.
C27_RemoveAtCaret ==
    LET p == AbsoluteBefore
        text == call.before.text
    IN  /\ Removed("Left") =>
              IF p = 0 \/ text = <<>> THEN Edited = call.before
              ELSE /\ Edited.text = WithoutChar(text, p - 1)
                   /\ AbsoluteAfter = p - 1
        /\ Removed("Right") =>
              IF p = Len(text) \/ text = <<>> THEN Edited = call.before
              ELSE /\ Edited.text = WithoutChar(text, p)
                   /\ AbsoluteAfter = p

\* One step of the caret, as a position (line, offset) in the lines: Right
\* goes one character forward, from the end of a line to offset 0 of the
\* next line, and stays at the end of the last line; Left goes one character
\* back, from offset 0 to the end of the previous line, and stays at line 0
\* offset 0.
StepRight(lines, at) ==
    IF at.offset < LineLen(lines[at.line + 1])
    THEN Position(at.line, at.offset + 1)
    ELSE IF at.line < Len(lines) - 1 THEN Position(at.line + 1, 0)
    ELSE Position(at.line, LineLen(lines[at.line + 1]))

StepLeft(lines, at) ==
    IF at.offset > 0 THEN Position(at.line, at.offset - 1)
    ELSE IF at.line > 0
    THEN Position(at.line - 1, LineLen(lines[at.line]))
    ELSE Position(0, 0)

RECURSIVE Steps(_, _, _, _)
Steps(lines, at, n, d) ==
    IF n = 0 THEN at
    ELSE Steps(lines, IF d = "Right" THEN StepRight(lines, at)
                      ELSE StepLeft(lines, at), n - 1, d)

\* move_caret_x was called with n and d, directly or for an arrow key.
MovedX(n, d) ==
    \/ call.op = "move_caret_x" /\ call.offset = n /\ call.direction = d
    \/ call.op = "handle_event" /\ call.kind.kind = "KeyDown"
         /\ call.kind.code = d /\ n = 1

\* C28: move_caret_x(n, direction) ends, with the selection cleared and the
\* caret visible, and the caret is where n steps in the direction take it;
\* on an empty text the caret is (0, 0).
C28_CaretSteps ==
    \A n \in 0 .. MaxMove, d \in HorizontalDirections :
        MovedX(n, d) =>
            /\ ~Edited.panicked
            /\ Edited.selection_range = None
            /\ Edited.caret_visible
            /\ Edited.text = call.before.text
            /\ Position(Edited.caret_line, Edited.caret_offset) =
                  IF call.before.text = <<>> THEN Position(0, 0)
                  ELSE Steps(get_lines(call.before.text),
                             Position(call.before.caret_line,
                                      call.before.caret_offset), n, d)

\* move_caret_y was called with n and d, directly or for an arrow key.
MovedY(n, d) ==
    \/ call.op = "move_caret_y" /\ call.offset = n /\ call.direction = d
    \/ call.op = "handle_event" /\ call.kind.kind = "KeyDown"
         /\ call.kind.code = d /\ n = 1

\* C29: move_caret_y(n, direction) changes only caret_line: Down sets it to
\* min(caret_line + n, line_count - 1), Up to max(caret_line - n, 0); the
\* offset, the text, the selection and the blink state are as before, and on
\* an empty text nothing changes.
C29_OnlyCaretLine ==
    \A n \in 0 .. MaxMove, d \in VerticalDirections :
        MovedY(n, d) =>
            LET line_count == Len(get_lines(call.before.text))
                line == call.before.caret_line
            IN  IF line_count = 0 THEN Edited = call.before
                ELSE /\ Edited = [call.before EXCEPT
                                    !.caret_line = Edited.caret_line]
                     /\ d = "Down" =>
                           Edited.caret_line =
                               IF line + n <= line_count - 1 THEN line + n
                               ELSE line_count - 1
                     /\ d = "Up" =>
                           Edited.caret_line =
                               IF line - n >= 0 THEN line - n ELSE 0

\* move_caret_y(1, Down) has moved the caret from the first line to the
\* second with its offset, selection and blink state kept.
C29_Witness ==
    /\ MovedY(1, "Down")
    /\ call.before.caret_line = 0 /\ Edited.caret_line = 1
    /\ Edited.caret_offset = 1
    /\ Edited.selection_range # None

\* The last call was handle_event with an event of the kind k.
Handled(k) == call.op = "handle_event" /\ call.kind.kind = k

\* C30: `selecting` becomes true only on a MouseDown of the left button and
\* is false after any MouseUp; a left MouseDown sets `selecting` and leaves
\* the selection empty, or collapsed at the clicked text position with the
\* caret moved there; MouseMove changes only the end of the selection, and
\* only while `selecting` is true and there is a selection; otherwise it
\* changes nothing.
C30_SelectionMachine ==
    LET b == call.before
        clicked == screen_pos_to_text_pos(b, nodes[2], call.kind.pos)
    IN  /\ call.op # "init" /\ Edited.selecting /\ ~b.selecting =>
              Handled("MouseDown") /\ call.kind.button = "Left"
        /\ Handled("MouseUp") =>
              Edited = [b EXCEPT !.selecting = FALSE]
        /\ Handled("MouseDown") /\ call.kind.button = "Left" =>
              /\ Edited.selecting
              /\ Edited.text = b.text
              /\ IF clicked = None
                 THEN /\ Edited.selection_range = None
                      /\ Edited.caret_line = b.caret_line
                      /\ Edited.caret_offset = b.caret_offset
                 ELSE /\ Edited.selection_range =
                            Some(SelectionRange(clicked[1], clicked[1]))
                      /\ Position(Edited.caret_line, Edited.caret_offset) =
                            clicked[1]
        /\ Handled("MouseMove") =>
              IF b.selecting /\ b.selection_range # None
              THEN /\ Edited.selection_range # None
                   /\ Edited.selection_range[1].begin =
                         b.selection_range[1].begin
                   /\ Edited = [b EXCEPT
                                  !.selection_range = Edited.selection_range]
              ELSE Edited = b

\* A MouseMove has moved the end of the selection a left MouseDown began.
C30_Witness ==
    /\ Handled("MouseMove")
    /\ call.before.selecting
    /\ call.before.selection_range =
          Some(SelectionRange(Position(0, 0), Position(0, 0)))
    /\ Edited.selection_range =
          Some(SelectionRange(Position(0, 0), Position(1, 0)))

\* The handles of a sequence that are not NONE, in their order.
RECURSIVE NonNone(_)
NonNone(hs) ==
    IF hs = <<>> THEN <<>>
    ELSE (IF Head(hs) = NONE THEN <<>> ELSE <<Head(hs)>>) \o NonNone(Tail(hs))

\* C35: the children of a built widget are the handles passed to with_child
\* and with_children that are not NONE, in the order of the calls: each call
\* appends the handles it is given but the NONE ones, no other option
\* touches the children, and build keeps them.
C35_ChildrenAsPassed ==
    /\ call.op = "with" =>
          call.builder.children =
              call.before.children \o
                  (CASE call.option = "with_child" -> NonNone(<<call.value>>)
                     [] call.option = "with_children" -> NonNone(call.value)
                     [] OTHER -> <<>>)
    /\ call.op = "add_node" => call.built.children = call.builder.children

\* The handle h names a proper descendant of the widget n: a node other than
\* n whose chain of parents passes through n.
ProperDescendant(n, h) == h \in Nodes /\ InSubtree(n, nodes[h].parent)

\* C33: has_descendant(h) on a widget returns, and returns true exactly when
\* h names a proper descendant of the widget: false for the widget's own
\* handle, for an ancestor's, for any other node's and for NONE.
C33_ProperDescendants ==
    call.op = "has_descendant" =>
        call.result = IF ProperDescendant(call.node, call.handle)
                      THEN "found" ELSE "absent"

\* C32: a text box releases the mouse capture only when it owns it: a
\* MouseUp it handles, from itself or from a descendant, leaves a capture
\* owned by another widget as it was, and a MouseUp that no left-button
\* MouseDown on this text box came before (it is not selecting) leaves the
\* capture owner unchanged.
C32_ReleasesOwnCapture ==
    (call.op = "handle_event" /\ call.kind = "MouseUp" /\ call.acted) =>
        /\ call.owner # call.node => captured = call.owner
        /\ ~call.before.selecting => captured = call.owner

\* The position p is not after the position q: the lines are compared first,
\* then the offsets.
NotAfter(p, q) == p.line < q.line \/ (p.line = q.line /\ p.offset <= q.offset)

\* The position p lies inside the text: on one of its lines and not beyond
\* the end of that line.
InText(text, p) ==
    LET lines == get_lines(text)
    IN  /\ p.line < Len(lines)
        /\ p.offset <= LineLen(lines[p.line + 1])

\* C31: in every state of a text box with a selection, the begin of the
\* selection is not after its end and both lie inside the current text, so
\* that the ranges draw builds from them are well-formed.
C31_SelectionWellFormed ==
    \A tb \in DOMAIN boxes :
        boxes[tb].selection_range # None =>
            LET selection_range == boxes[tb].selection_range[1]
            IN  /\ NotAfter(selection_range.begin, selection_range.end)
                /\ InText(boxes[tb].text, selection_range.begin)
                /\ InText(boxes[tb].text, selection_range.end)

\* A size, a rectangle, the sizes of a panel and a sequence of sizes or of
\* rectangles with x and y swapped.
SwapVec(v) == Vec2(v.y, v.x)

SwapRect(r) == Rect(r.y, r.x, r.h, r.w)

SwapWidget(w) ==
    [width |-> w.height, height |-> w.width, min_size |-> SwapVec(w.min_size),
     max_size |-> SwapVec(w.max_size)]

SwapVecs(vs) == [i \in DOMAIN vs |-> SwapVec(vs[i])]

SwapRects(rs) == [i \in DOMAIN rs |-> SwapRect(rs[i])]

WidthOf(v) == v.x

HeightOf(v) == v.y

\* C34: a horizontal stack panel is the transpose of a vertical one: with x
\* and y swapped in the available size, the final size, the panel's width,
\* height, min_size and max_size and the desired size of every child, the
\* horizontal panel's child constraint, measured size, child rectangles and
\* arranged size are those of the vertical panel with x and y swapped; the
\* horizontal measured size is (sum of the widths, largest height) and child
\* i stands at the x-offset that is the sum of the widths before it.
C34_Transpose ==
    /\ (call.op = "arrange" /\ call.orientation = "Vertical") =>
          LET swapped == SwapVecs(call.desired)
              final_size == SwapVec(call.final_size)
              r == StackArranged("Horizontal",
                                 ArrangeStart("Horizontal", final_size),
                                 <<>>, swapped)
          IN  /\ ChildConstraint(SwapWidget(call.widget), "Horizontal",
                                 SwapVec(call.available_size))
                    = SwapVec(call.child_constraint)
              /\ StackMeasured("Horizontal", ZERO, swapped)
                    = SwapVec(call.measured_size)
              /\ r.rects = SwapRects(call.child_bounds)
              /\ ArrangeResult("Horizontal", r.acc, final_size)
                    = SwapVec(call.arranged)
    /\ (call.op = "arrange" /\ call.orientation = "Horizontal") =>
          /\ call.measured_size =
                Vec2(SumOver(WidthOf, call.desired, Len(call.desired)),
                     MaxOver(HeightOf, call.desired, Len(call.desired)))
          /\ \A i \in DOMAIN call.child_bounds :
                /\ call.child_bounds[i].x = SumOver(WidthOf, call.desired, i - 1)
                /\ call.child_bounds[i].y = 0

\* Both panels were laid out with two children of different sizes, a panel
\* with a width and no height, and sizes that differ in x and y.
C34_Witness ==
    /\ call.op = "arrange" /\ call.orientation = "Vertical"
    /\ Len(call.desired) = 2 /\ call.desired[1] # call.desired[2]
    /\ call.desired[1].x # call.desired[1].y
    /\ ~is_nan(call.widget.width) /\ is_nan(call.widget.height)
    /\ call.child_bounds[2].y > 0
    /\ call.measured_size.x # call.measured_size.y
    /\ call.arranged.x # call.arranged.y
    /\ call.child_constraint.x # Inf

====
